---- MODULE Spec2Model ----
(***************************************************************************)
(* Model of the btcturk client: ApiKeys (request signing), Parameters,     *)
(* Response (envelope extraction), Client::send (the request pipeline) and *)
(* the endpoint methods that build a Request and call send.                *)
(*                                                                         *)
(* Strings are TLA+ strings (concatenated with \o).  An Option<T> is a     *)
(* sequence of length 0 (None) or 1 (Some(x)).  HMAC-SHA256 and base64 are *)
(* modelled symbolically: a digest is the record of the key and the bytes  *)
(* that were fed to the MAC, base64 text is the record of the bytes it     *)
(* encodes, and text that is not base64 is a record of another shape.      *)
(***************************************************************************)
EXTENDS Integers, Sequences, FiniteSets, TLC

VARIABLES
    keys,       \* Client.keys: Option<ApiKeys>
    id,         \* Client.id: Option<&str>
    url_cache,  \* Client.url_cache
    clock,      \* SystemTime::now(), in milliseconds since the epoch
    calls,      \* per task: the call it is in, and how far it got
    keys_arg,   \* history: the keys given to the latest Client::new / set_keys
    id_arg      \* history: the id given to the latest Client::new / set_id

vars == <<keys, id, url_cache, clock, calls, keys_arg, id_arg>>

-----------------------------------------------------------------------------
(* Bounds *)

\* Largest reading of the system clock, in milliseconds since the epoch.
MaxClock == 1

\* Number of tasks that may hold a call on the shared client at once.
NumTasks == 2

Tasks == 1..NumTasks

-----------------------------------------------------------------------------
(* Option and Result *)

None == <<>>

Some(x) == <<x>>

IsSome(o) == Len(o) = 1

Unwrap(o) == o[1]

Ok(v) == [ok |-> TRUE, value |-> v]

Err(e) == [ok |-> FALSE, error |-> e]

-----------------------------------------------------------------------------
(* Decimal rendering of integers (u16/u64/i64/u128 to_string) *)

Digit == <<"0", "1", "2", "3", "4", "5", "6", "7", "8", "9">>

RECURSIVE NumToString(_)
NumToString(n) ==
    IF n < 0 THEN "-" \o NumToString(0 - n)
    ELSE IF n < 10 THEN Digit[n + 1]
    ELSE NumToString(n \div 10) \o Digit[(n % 10) + 1]

RECURSIVE Pow10(_)
Pow10(k) == IF k = 0 THEN 1 ELSE 10 * Pow10(k - 1)

RECURSIVE ZeroPad(_, _)
ZeroPad(n, width) ==
    IF width = 0 THEN ""
    ELSE ZeroPad(n \div 10, width - 1) \o Digit[(n % 10) + 1]

\* rust_decimal::Decimal is a mantissa m and a scale s (value m / 10^s);
\* to_string keeps exactly s fractional digits.
DecimalToString(d) ==
    IF d.s = 0 THEN NumToString(d.m)
    ELSE NumToString(d.m \div Pow10(d.s)) \o "." \o ZeroPad(d.m % Pow10(d.s), d.s)

-----------------------------------------------------------------------------
(* base64 and HMAC-SHA256 (symbolic) *)

Base64Encode(bytes) == [base64 |-> bytes]

Base64Decode(text) ==
    IF "base64" \in DOMAIN text THEN Ok(text.base64) ELSE Err("DecodeError")

\* Hmac::<Sha256>::new_from_slice: a keyed MAC context with nothing fed yet.
\* HMAC accepts a key of any length.
MacNew(key) == Ok([key |-> key, data |-> ""])

MacUpdate(mac, bytes) == [mac EXCEPT !.data = @ \o bytes]

MacFinalize(mac) == [hmac_sha256_key |-> mac.key, msg |-> mac.data]

-----------------------------------------------------------------------------
(* ApiKeys *)

\* Mutant of ApiKeysNew: a private key that is not base64 gives an ApiKeys
\* whose MAC has an empty key.
ApiKeysNew_EmptyKeyOnError(public_key, private_key) ==
    LET decoded == Base64Decode(private_key)
        mac == MacNew(IF decoded.ok THEN decoded.value ELSE <<>>)
    IN  IF ~mac.ok THEN Err("InvalidLengthError")
        ELSE Ok([public_key  |-> public_key,
                 private_key |-> private_key,
                 mac         |-> mac.value])

ApiKeysNew(public_key, private_key) ==
    LET decoded == Base64Decode(private_key)
    IN  IF ~decoded.ok THEN Err("DecodeError")
        ELSE LET mac == MacNew(decoded.value)
             IN  IF ~mac.ok THEN Err("InvalidLengthError")
                 ELSE Ok([public_key  |-> public_key,
                          private_key |-> private_key,
                          mac         |-> mac.value])

\* The (public key, private key) strings callers hand to ApiKeys::new.
KeyStrings ==
    {<<"pk-A", Base64Encode(<<1, 2, 3>>)>>,
     <<"pk-B7", Base64Encode(<<9>>)>>,
     <<"pk-A", [text |-> "not base64!"]>>}

\* Every ApiKeys object a caller can obtain from ApiKeys::new.
AllApiKeys ==
    {ApiKeysNew(x[1], x[2]).value :
        x \in {y \in KeyStrings : ApiKeysNew(y[1], y[2]).ok}}

-----------------------------------------------------------------------------
(* Parameters: a serde_json Map<String, Value> *)

ParametersNew == <<>>

\* Mutant of Insert: a name already in the map keeps its earlier value.
Insert_KeepFirst(root, name, value) ==
    IF name \in DOMAIN root THEN root
    ELSE [k \in (DOMAIN root) \cup {name} |-> IF k = name THEN value ELSE root[k]]

\* Map::insert
Insert(root, name, value) ==
    [k \in (DOMAIN root) \cup {name} |-> IF k = name THEN value ELSE root[k]]

OrderMethodToString(m) ==
    CASE m = "Market"     -> "market"
      [] m = "Limit"      -> "limit"
      [] m = "StopLimit"  -> "stoplimit"
      [] m = "StopMarket" -> "stopmarket"

OrderTypeToString(o) ==
    CASE o = "Buy"  -> "buy"
      [] o = "Sell" -> "sell"

TransactionTypeToString(x) ==
    CASE x = "Deposit"    -> "deposit"
      [] x = "Withdrawal" -> "withdrawal"

CurrencyToString(c) ==
    CASE c = "Usdt" -> "USDT"
      [] c = "Try"  -> "TRY"
      [] c = "Btc"  -> "BTC"

\* impl From<...> for String of the enums handed to push_object.
IntoString(e) ==
    CASE e.enum = "OrderMethod"     -> OrderMethodToString(e.variant)
      [] e.enum = "OrderType"       -> OrderTypeToString(e.variant)
      [] e.enum = "TransactionType" -> TransactionTypeToString(e.variant)
      [] e.enum = "Currency"        -> CurrencyToString(e.variant)

\* Mutant of push_string: an absent value is stored as JSON null.
push_string_Null(root, name, value) ==
    IF IsSome(value) THEN Insert(root, name, [String |-> Unwrap(value)])
    ELSE Insert(root, name, [Null |-> TRUE])

push_string(root, name, value) ==
    IF IsSome(value) THEN Insert(root, name, [String |-> Unwrap(value)])
    ELSE root

push_decimal(root, name, value) ==
    push_string(root, name,
                IF IsSome(value) THEN Some(DecimalToString(Unwrap(value)))
                ELSE None)

push_object(root, name, value) ==
    IF IsSome(value) THEN Insert(root, name, [String |-> IntoString(Unwrap(value))])
    ELSE root

push_number(root, name, value) ==
    IF IsSome(value) THEN Insert(root, name, [Number |-> Unwrap(value)])
    ELSE root

\* Iteration order of the map (serde_json's default Map is a BTreeMap: keys in
\* byte order).
KeyOrder ==
    <<"endDate", "endTime", "from", "id", "last", "limit", "newOrderClientId",
      "orderId", "orderMethod", "orderType", "page", "pair", "pairSymbol",
      "price", "quantity", "startDate", "startTime", "stopPrice", "symbol",
      "to", "type">>

RECURSIVE EntriesFrom(_, _)
EntriesFrom(root, i) ==
    IF i > Len(KeyOrder) THEN <<>>
    ELSE IF KeyOrder[i] \in DOMAIN root
         THEN <<KeyOrder[i]>> \o EntriesFrom(root, i + 1)
         ELSE EntriesFrom(root, i + 1)

\* The keys of the map in iteration order.
Keys(root) == EntriesFrom(root, 1)

-----------------------------------------------------------------------------
(* Encoding of the parameters *)

\* value.as_str() for a string, value.to_string() for any other value.
QueryValue(value) ==
    IF "String" \in DOMAIN value THEN value.String
    ELSE IF "Number" \in DOMAIN value THEN NumToString(value.Number)
    ELSE "null"

QueryPairs(root) ==
    [i \in 1..Len(Keys(root)) |-> <<Keys(root)[i], QueryValue(root[Keys(root)[i]])>>]

JsonValue(value) ==
    IF "String" \in DOMAIN value THEN [json_string |-> value.String]
    ELSE IF "Number" \in DOMAIN value THEN [json_number |-> NumToString(value.Number)]
    ELSE [json_null |-> TRUE]

\* serde_json::to_string of the map: one JSON object, one member per entry.
\* Serializing a map of strings and integers cannot fail.
JsonToString(root) ==
    Ok([json_object |->
          [i \in 1..Len(Keys(root)) |-> <<Keys(root)[i], JsonValue(root[Keys(root)[i]])>>]])

-----------------------------------------------------------------------------
(* Response<D>: the envelope, and its decoding from the body text *)

Unsuccessful(code, message) ==
    [kind |-> "Unsuccessful", code |-> code, message |-> message]

NullData == [kind |-> "NullData"]

EmptyData == [kind |-> "EmptyData"]

\* Mutant of ResponseData: looks at data before success.
ResponseData_DataFirst(self) ==
    IF IsSome(self.data) THEN Ok(Unwrap(self.data))
    ELSE IF ~self.success THEN Err(Unsuccessful(self.code, self.message))
    ELSE Err(NullData)

ResponseData(self) ==
    IF ~self.success THEN Err(Unsuccessful(self.code, self.message))
    ELSE IF IsSome(self.data) THEN Ok(Unwrap(self.data))
    ELSE Err(NullData)

ResponseCode(self) == self.code

ResponseMessage(self) == self.message

\* Whether a JSON value written by the server deserializes as the type D.
\* EmptyResponse is a unit struct: it deserializes from null only, so no
\* non-null value deserializes as it.
DeserializesAs(payload, D) == D # "EmptyResponse" /\ payload.type = D

\* serde_json::from_str::<Response<D>>: the text must be an object with the
\* envelope's fields, and data must be null, absent or a D.
FromStrResponse(text, D) ==
    IF text.kind = "envelope"
       /\ (IsSome(text.data) => DeserializesAs(Unwrap(text.data), D))
    THEN Ok([data    |-> text.data,
             success |-> text.success,
             message |-> text.message,
             code    |-> text.code])
    ELSE Err("serde_json::Error")

\* serde_json::from_str::<D>
FromStrBare(text, D) ==
    IF text.kind = "bare" /\ DeserializesAs(text.payload, D)
    THEN Ok(text.payload)
    ELSE Err("serde_json::Error")

-----------------------------------------------------------------------------
(* SendRequest errors *)

AuthenticationRequired == [kind |-> "AuthenticationRequired"]

BadStatusCode(status_code, response_string, code, message) ==
    [kind |-> "BadStatusCode", status_code |-> status_code,
     response_string |-> response_string, code |-> code, message |-> message]

\* #[from] SystemTimeError
SystemTimeError == [kind |-> "SystemTimeError"]

\* From<surf::Error>
SurfError == [kind |-> "SurfError"]

\* #[from] serde_json::Error
SerdeJsonError == [kind |-> "SerdeJsonError"]

\* #[from] error::Response
ResponseError(source) == [kind |-> "ResponseError", source |-> source]

ParameterNew(name, value) == [name |-> name, value |-> value]

\* #[from] error::Parameter
ParameterError(source) == [kind |-> "ParameterError", source |-> source]

-----------------------------------------------------------------------------
(* UrlCache *)

UrlCacheNew ==
    [ticker              |-> "https://api.btcturk.com/api/v2/ticker",
     currency            |-> "https://api.btcturk.com/api/v2/ticker/currency",
     order_book          |-> "https://api.btcturk.com/api/v2/orderbook",
     trades              |-> "https://api.btcturk.com/api/v2/trades",
     ohlc                |-> "https://graph-api.btcturk.com/v1/ohlcs",
     account_balance     |-> "https://api.btcturk.com/api/v1/users/balances",
     trade_transactions  |-> "https://api.btcturk.com/api/v1/users/transactions/trade",
     crypto_transactions |-> "https://api.btcturk.com/api/v1/users/transactions/crypto",
     fiat_transactions   |-> "https://api.btcturk.com/api/v1/users/transactions/fiat",
     open_orders         |-> "https://api.btcturk.com/api/v1/openOrders",
     all_orders          |-> "https://api.btcturk.com/api/v1/allOrders",
     submit_cancel_order |-> "https://api.btcturk.com/api/v1/order",
     exchange_info       |-> "https://api.btcturk.com/api/v2/server/exchangeinfo"]

-----------------------------------------------------------------------------
(* The endpoint methods.  Each returns Err(e) when it returns before calling *)
(* send, and otherwise Ok of the arguments it hands to send: the Request,    *)
(* bare_data and the payload type D.                                         *)

Request(endpoint, method, parameters, requires_auth) ==
    [endpoint |-> endpoint, method |-> method, parameters |-> parameters,
     requires_auth |-> requires_auth]

SendArgs(request, bare_data, D) ==
    Ok([request |-> request, bare_data |-> bare_data, D |-> D])

\* The documented maximum of the limit parameter.
LimitMax == 1000

\* Mutant of LimitTooLarge: rejects the maximum itself.
LimitTooLarge_Inclusive(limit) == limit >= LimitMax

\* if limit > 1000
LimitTooLarge(limit) == limit > LimitMax

ticker(pair_symbol) ==
    SendArgs(Request(url_cache.ticker, "Get",
                     push_string(ParametersNew, "pairSymbol", Some(pair_symbol)),
                     FALSE),
             FALSE, "Vec<Ticker>")

tickers ==
    SendArgs(Request(url_cache.ticker, "Get", ParametersNew, FALSE),
             FALSE, "Vec<Ticker>")

Currency(variant) == [enum |-> "Currency", variant |-> variant]

currency(symbol) ==
    SendArgs(Request(url_cache.currency, "Get",
                     push_object(ParametersNew, "symbol", Some(symbol)),
                     FALSE),
             FALSE, "Vec<Ticker>")

\* The documented maximum of the last parameter.
LastMax == 50

trades(pair_symbol, last) ==
    LET p1 == push_string(ParametersNew, "pairSymbol", Some(pair_symbol))
    IN  IF IsSome(last) /\ Unwrap(last) > LastMax
        THEN Err(ParameterError(ParameterNew("last", NumToString(Unwrap(last)))))
        ELSE SendArgs(Request(url_cache.trades, "Get",
                              IF IsSome(last)
                              THEN push_number(p1, "last", Some(Unwrap(last)))
                              ELSE p1,
                              FALSE),
                      FALSE, "Vec<Trade>")

exchange_info ==
    SendArgs(Request(url_cache.exchange_info, "Get", ParametersNew, FALSE),
             FALSE, "ExchangeInfo")

order_book(pair_symbol, limit) ==
    LET p1 == push_string(ParametersNew, "pairSymbol", Some(pair_symbol))
    IN  IF IsSome(limit) /\ LimitTooLarge(Unwrap(limit))
        THEN Err(ParameterError(ParameterNew("limit", NumToString(Unwrap(limit)))))
        ELSE SendArgs(Request(url_cache.order_book, "Get",
                              IF IsSome(limit)
                              THEN push_number(p1, "limit", Some(Unwrap(limit)))
                              ELSE p1,
                              FALSE),
                      FALSE, "OrderBook")

ohlc(pair, range) ==
    LET p1 == push_string(ParametersNew, "pair", Some(pair))
        p2 == IF IsSome(range)
              THEN push_number(push_number(p1, "from", Some(Unwrap(range).start)),
                               "to", Some(Unwrap(range).end))
              ELSE p1
    IN  SendArgs(Request(url_cache.ohlc, "Get", p2, FALSE), TRUE, "Vec<Ohlc>")

account_balance ==
    SendArgs(Request(url_cache.account_balance, "Get", ParametersNew, TRUE),
             FALSE, "Vec<AssetBalance>")

\* Mutant of all_orders: the keys are looked for before the limit is checked.
all_orders_AuthFirst(order_id, pair_symbol, time_range, page, limit) ==
    LET p1 == push_number(ParametersNew, "orderId", order_id)
        p2 == push_string(p1, "pairSymbol", Some(pair_symbol))
        p3 == IF IsSome(time_range)
              THEN push_number(push_number(p2, "startTime",
                                           Some(Unwrap(time_range).start)),
                               "endTime", Some(Unwrap(time_range).end))
              ELSE p2
        p4 == push_number(p3, "page", page)
    IN  IF keys = None THEN Err(AuthenticationRequired)
        ELSE IF IsSome(limit) /\ LimitTooLarge(Unwrap(limit))
        THEN Err(ParameterError(ParameterNew("limit", NumToString(Unwrap(limit)))))
        ELSE SendArgs(Request(url_cache.all_orders, "Get",
                              IF IsSome(limit)
                              THEN push_number(p4, "limit", Some(Unwrap(limit)))
                              ELSE p4,
                              TRUE),
                      FALSE, "Vec<Order>")

all_orders(order_id, pair_symbol, time_range, page, limit) ==
    LET p1 == push_number(ParametersNew, "orderId", order_id)
        p2 == push_string(p1, "pairSymbol", Some(pair_symbol))
        p3 == IF IsSome(time_range)
              THEN push_number(push_number(p2, "startTime",
                                           Some(Unwrap(time_range).start)),
                               "endTime", Some(Unwrap(time_range).end))
              ELSE p2
        p4 == push_number(p3, "page", page)
    IN  IF IsSome(limit) /\ LimitTooLarge(Unwrap(limit))
        THEN Err(ParameterError(ParameterNew("limit", NumToString(Unwrap(limit)))))
        ELSE SendArgs(Request(url_cache.all_orders, "Get",
                              IF IsSome(limit)
                              THEN push_number(p4, "limit", Some(Unwrap(limit)))
                              ELSE p4,
                              TRUE),
                      FALSE, "Vec<Order>")

open_orders(pair_symbol) ==
    SendArgs(Request(url_cache.open_orders, "Get",
                     push_string(ParametersNew, "pairSymbol", Some(pair_symbol)),
                     TRUE),
             FALSE, "OpenOrders")

cancel_order(order) ==
    SendArgs(Request(url_cache.submit_cancel_order, "Delete",
                     push_number(ParametersNew, "id", Some(order)), TRUE),
             FALSE, "EmptyResponse")

OrderMethod(variant) == [enum |-> "OrderMethod", variant |-> variant]

OrderType(variant) == [enum |-> "OrderType", variant |-> variant]

TransactionType(variant) == [enum |-> "TransactionType", variant |-> variant]

submit_order(parameters) ==
    LET p1 == push_decimal(ParametersNew, "quantity", parameters.quantity)
        p2 == push_decimal(p1, "price", parameters.price)
        p3 == push_decimal(p2, "stopPrice", parameters.stop_price)
        p4 == push_string(p3, "newOrderClientId", parameters.new_order_client_id)
        p5 == push_object(p4, "orderMethod", Some(parameters.order_method))
        p6 == push_object(p5, "orderType", Some(parameters.order_type))
        p7 == push_string(p6, "pairSymbol", Some(parameters.pair_symbol))
    IN  SendArgs(Request(url_cache.submit_cancel_order, "Post", p7, TRUE),
                 FALSE, "NewOrder")

market(pair_symbol, quantity, order_type) ==
    submit_order([quantity            |-> Some(quantity),
                  price               |-> None,
                  stop_price          |-> None,
                  new_order_client_id |-> id,
                  order_method        |-> OrderMethod("Market"),
                  order_type          |-> order_type,
                  pair_symbol         |-> pair_symbol])

market_buy(pair_symbol, quantity) ==
    market(pair_symbol, quantity, OrderType("Buy"))

market_sell(pair_symbol, quantity) ==
    market(pair_symbol, quantity, OrderType("Sell"))

limit(pair_symbol, quantity, price, order_type) ==
    submit_order([quantity            |-> Some(quantity),
                  price               |-> Some(price),
                  stop_price          |-> None,
                  new_order_client_id |-> id,
                  order_method        |-> OrderMethod("Limit"),
                  order_type          |-> order_type,
                  pair_symbol         |-> pair_symbol])

\* Mutant of limit_buy: price and quantity are handed to limit in the order
\* limit_buy received them.
limit_buy_Swapped(pair_symbol, price, quantity) ==
    limit(pair_symbol, price, quantity, OrderType("Buy"))

limit_buy(pair_symbol, price, quantity) ==
    limit(pair_symbol, quantity, price, OrderType("Buy"))

limit_sell(pair_symbol, price, quantity) ==
    limit(pair_symbol, quantity, price, OrderType("Sell"))

stop_limit(pair_symbol, quantity, price, stop_price, order_type) ==
    submit_order([quantity            |-> Some(quantity),
                  price               |-> Some(price),
                  stop_price          |-> Some(stop_price),
                  new_order_client_id |-> id,
                  order_method        |-> OrderMethod("Limit"),
                  order_type          |-> order_type,
                  pair_symbol         |-> pair_symbol])

stop_limit_buy(pair_symbol, price, stop_price, quantity) ==
    stop_limit(pair_symbol, quantity, price, stop_price, OrderType("Buy"))

stop_limit_sell(pair_symbol, price, stop_price, quantity) ==
    stop_limit(pair_symbol, quantity, price, stop_price, OrderType("Sell"))

\* for symbol in symbols { parameters.push_string("symbol", Some(symbol)) }
RECURSIVE PushSymbols(_, _)
PushSymbols(root, symbols) ==
    IF symbols = <<>> THEN root
    ELSE PushSymbols(push_string(root, "symbol", Some(Head(symbols))),
                     Tail(symbols))

\* Mutant of trade_transactions: the filters are pushed with an order id too.
trade_transactions_Both(order_id, type, symbols, date_range) ==
    LET q0 == push_number(ParametersNew, "orderId", order_id)
        q1 == push_object(q0, "type", type)
        q2 == PushSymbols(q1, symbols)
        p  == IF IsSome(date_range)
              THEN push_number(push_number(q2, "startDate",
                                           Some(Unwrap(date_range).start)),
                               "endDate", Some(Unwrap(date_range).end))
              ELSE q2
    IN  SendArgs(Request(url_cache.trade_transactions, "Get", p, TRUE),
                 FALSE, "Vec<TradeTransaction>")

trade_transactions(order_id, type, symbols, date_range) ==
    LET p == IF IsSome(order_id)
             THEN push_number(ParametersNew, "orderId", Some(Unwrap(order_id)))
             ELSE LET q1 == push_object(ParametersNew, "type", type)
                      q2 == PushSymbols(q1, symbols)
                  IN  IF IsSome(date_range)
                      THEN push_number(push_number(q2, "startDate",
                                                   Some(Unwrap(date_range).start)),
                                       "endDate", Some(Unwrap(date_range).end))
                      ELSE q2
    IN  SendArgs(Request(url_cache.trade_transactions, "Get", p, TRUE),
                 FALSE, "Vec<TradeTransaction>")

normal_transactions(type, symbols, date_range, fiat) ==
    LET q1 == push_object(ParametersNew, "type", type)
        q2 == PushSymbols(q1, symbols)
        q3 == IF IsSome(date_range)
              THEN push_number(push_number(q2, "startDate",
                                           Some(Unwrap(date_range).start)),
                               "endDate", Some(Unwrap(date_range).end))
              ELSE q2
        endpoint == IF fiat THEN url_cache.fiat_transactions
                    ELSE url_cache.crypto_transactions
    IN  SendArgs(Request(endpoint, "Get", q3, TRUE), FALSE,
                 IF fiat THEN "Vec<FiatTransaction>" ELSE "Vec<CryptoTransaction>")

crypto_transactions(type, symbols, date_range) ==
    normal_transactions(type, symbols, date_range, FALSE)

fiat_transactions(type, symbols, date_range) ==
    normal_transactions(type, symbols, date_range, TRUE)

-----------------------------------------------------------------------------
(* What the server may answer *)

StatusOk == 200

StatusCodes == {200, 400, 503}

ListTypes == {"Vec<Ticker>", "Vec<Trade>", "Vec<Ohlc>", "Vec<AssetBalance>", "Vec<Order>",
              "Vec<TradeTransaction>", "Vec<CryptoTransaction>",
              "Vec<FiatTransaction>"}

\* JSON values of the shape of D, and one of another shape.
Payloads(D) ==
    (IF D \in ListTypes
     THEN {[type |-> D, items |-> <<>>], [type |-> D, items |-> <<"a", "b">>]}
     ELSE IF D = "EmptyResponse" THEN {}
     ELSE {[type |-> D, items |-> <<"a">>]})
    \cup {[type |-> "Unexpected", items |-> <<"x">>]}

Bodies(D) ==
    {[kind |-> "garbage"]}
    \cup {[kind |-> "bare", payload |-> p] : p \in Payloads(D)}
    \cup {[kind |-> "envelope", data |-> d, success |-> e[1],
           message |-> e[2], code |-> e[3]] :
            d \in {None} \cup {Some(p) : p \in Payloads(D)},
            e \in {<<TRUE, None, 0>>, <<FALSE, None, 5>>,
                   <<FALSE, Some("currencySymbol parameter must be set"), 1037>>}}

Responses(D) == [status : StatusCodes, body : Bodies(D)]

-----------------------------------------------------------------------------
(* State *)

X_PCK == "X-PCK"

X_STAMP == "X-Stamp"

X_SIGNATURE == "X-Signature"

\* A task with no call on the client.  args is the history of the arguments
\* the method was called with.  parameters is a Parameters value the
\* task is building with the push operations; pushed is the history of the
\* latest push (its operation, name and value, and the map before it).
IdleCall ==
    [pc              |-> "idle",
     op              |-> "",
     args            |-> <<>>,
     request         |-> None,
     bare_data       |-> FALSE,
     D               |-> "",
     surf_request    |-> None,
     mac             |-> None,
     timestamp       |-> None,
     sign_nonce      |-> None,
     sent            |-> 0,
     response        |-> None,
     response_string |-> None,
     decoded         |-> None,
     returned        |-> <<>>,
     outcome         |-> None,
     trace           |-> <<>>,
     parameters      |-> ParametersNew,
     pushed          |-> None]

\* The clock may read before the epoch.
MinClock == 0 - 1

\* Client::new(keys, id)
ClientNew(k, i) ==
    /\ keys = k
    /\ id = i
    /\ url_cache = UrlCacheNew

ClientIds == {None, Some("test")}

\* The client as tests/main.rs constructs it, Client::new(None, None); keys
\* and id are then given with set_keys and set_id.
Init ==
    /\ ClientNew(None, None)
    /\ keys_arg = None
    /\ id_arg = None
    /\ clock = MinClock
    /\ calls = [t \in Tasks |-> IdleCall]

NoBorrow == \A t \in Tasks : calls[t].pc \in {"idle", "building"}

\* Mutant of set_keys: None does not remove the current keys.
set_keys_KeepOnNone(k) ==
    /\ NoBorrow
    /\ keys' = IF IsSome(k) THEN k ELSE keys
    /\ UNCHANGED <<id, url_cache, clock, calls>>

\* set_keys takes &mut self: no call on the client is in flight.
set_keys(k) ==
    /\ NoBorrow
    /\ keys' = k
    /\ UNCHANGED <<id, url_cache, clock, calls>>

\* Mutant of set_id: None does not remove the current id.
set_id_KeepOnNone(i) ==
    /\ NoBorrow
    /\ id' = IF IsSome(i) THEN i ELSE id
    /\ UNCHANGED <<keys, url_cache, clock, calls>>

\* set_id takes &mut self.
set_id(i) ==
    /\ NoBorrow
    /\ id' = i
    /\ UNCHANGED <<keys, url_cache, clock, calls>>

SetKeys ==
    \E k \in {None} \cup {Some(a) : a \in AllApiKeys} :
        /\ set_keys(k)
        /\ keys_arg' = k
        /\ UNCHANGED id_arg

SetId ==
    \E i \in ClientIds :
        /\ set_id(i)
        /\ id_arg' = i
        /\ UNCHANGED keys_arg

\* The system clock advances.
Tick ==
    /\ clock < MaxClock
    /\ clock' = clock + 1
    /\ UNCHANGED <<keys, id, url_cache, calls, keys_arg, id_arg>>

SetCall(t, c) ==
    /\ calls' = [calls EXCEPT ![t] = c]
    /\ UNCHANGED <<keys, id, url_cache, clock, keys_arg, id_arg>>

Stage(c, name) == [c EXCEPT !.trace = Append(@, name)]

\* `return`/`?` inside send: the call's result is produced and send ends.
Return(c, result) ==
    [c EXCEPT !.pc = "returned", !.returned = Append(@, result)]

-----------------------------------------------------------------------------
(* Client::send, one action per step of the pipeline *)

\* Mutant of BuildSurfRequest: only a GET carries its parameters in the query;
\* a DELETE sends them as a JSON body like a POST.
BuildSurfRequest_DeleteHasBody(request) ==
    LET body == IF request.method # "Get"
                THEN JsonToString(request.parameters)
                ELSE Ok(None)
    IN  IF ~body.ok THEN Err(SerdeJsonError)
        ELSE Ok([method  |-> request.method,
                 url     |-> [endpoint |-> request.endpoint,
                              query    |-> IF request.method # "Get" THEN <<>>
                                           ELSE QueryPairs(request.parameters)],
                 body    |-> IF request.method # "Get" THEN Some(body.value)
                             ELSE None,
                 headers |-> ("Content-Type" :> "application/json")])

\* Lines 117-136: the URL (with the query pairs of a GET/DELETE), the body (of
\* a POST) and the Content-Type header.
BuildSurfRequest(request) ==
    LET body == IF request.method = "Post"
                THEN JsonToString(request.parameters)
                ELSE Ok(None)
    IN  IF ~body.ok THEN Err(SerdeJsonError)
        ELSE Ok([method  |-> request.method,
                 url     |-> [endpoint |-> request.endpoint,
                              query    |-> IF request.method = "Post" THEN <<>>
                                           ELSE QueryPairs(request.parameters)],
                 body    |-> IF request.method = "Post" THEN Some(body.value)
                             ELSE None,
                 headers |-> ("Content-Type" :> "application/json")])

\* Mutant of Encode: the query pairs are appended to the client's cached URL
\* and not to a clone of it.
Encode_InPlace(t) ==
    LET c == Stage(calls[t], "encode")
        built == BuildSurfRequest(Unwrap(c.request))
        appended == built.ok /\ built.value.url.query # <<>>
    IN  /\ calls[t].pc = "encode"
        /\ calls' = [calls EXCEPT ![t] =
              IF built.ok
              THEN [c EXCEPT !.pc = "auth", !.surf_request = Some(built.value)]
              ELSE Return(c, Err(built.error))]
        /\ url_cache' = [k \in DOMAIN url_cache |->
              IF appended /\ url_cache[k] = Unwrap(c.request).endpoint
              THEN "endpoint?query" ELSE url_cache[k]]
        /\ UNCHANGED <<keys, id, clock, keys_arg, id_arg>>

Encode(t) ==
    LET c == Stage(calls[t], "encode")
        built == BuildSurfRequest(Unwrap(c.request))
    IN  /\ calls[t].pc = "encode"
        /\ IF built.ok
           THEN SetCall(t, [c EXCEPT !.pc = "auth",
                                     !.surf_request = Some(built.value)])
           ELSE SetCall(t, Return(c, Err(built.error)))

\* Mutant of Auth: a request that needs keys goes out unsigned without them.
Auth_NoGate(t) ==
    LET c == Stage(calls[t], "auth")
    IN  /\ calls[t].pc = "auth"
        /\ IF Unwrap(c.request).requires_auth /\ IsSome(keys)
           THEN SetCall(t, [c EXCEPT !.pc = "sign_clone"])
           ELSE SetCall(t, [c EXCEPT !.pc = "transmit"])

\* Mutant of Auth: a client that holds keys signs every request.
Auth_SignAlways(t) ==
    LET c == Stage(calls[t], "auth")
    IN  /\ calls[t].pc = "auth"
        /\ IF IsSome(keys)
           THEN SetCall(t, [c EXCEPT !.pc = "sign_clone"])
           ELSE IF Unwrap(c.request).requires_auth
                THEN SetCall(t, Return(c, Err(AuthenticationRequired)))
                ELSE SetCall(t, [c EXCEPT !.pc = "transmit"])

\* Lines 137-146, up to the call of generate_sign_nonce.
Auth(t) ==
    LET c == Stage(calls[t], "auth")
    IN  /\ calls[t].pc = "auth"
        /\ IF Unwrap(c.request).requires_auth
           THEN IF IsSome(keys)
                THEN SetCall(t, [c EXCEPT !.pc = "sign_clone"])
                ELSE SetCall(t, Return(c, Err(AuthenticationRequired)))
           ELSE SetCall(t, [c EXCEPT !.pc = "transmit"])

\* generate_sign_nonce: let mut mac = self.mac.clone();
SignClone(t) ==
    /\ calls[t].pc = "sign_clone"
    /\ SetCall(t, [calls[t] EXCEPT !.pc = "sign_time",
                                   !.mac = Some(Unwrap(keys).mac)])

\* Mutant of SignTime: the clock error is converted to the SurfError variant.
SignTime_AsSurfError(t) ==
    LET c == calls[t]
    IN  /\ c.pc = "sign_time"
        /\ IF clock < 0
           THEN SetCall(t, IF c.op = "generate_sign_nonce"
                           THEN [c EXCEPT !.pc = "done",
                                          !.outcome = Some(Err(SystemTimeError))]
                           ELSE Return(c, Err(SurfError)))
           ELSE SetCall(t, [c EXCEPT !.pc = "sign_update",
                                     !.timestamp = Some(NumToString(clock))])

\* Mutant of SignTime: a clock before the epoch is read as the epoch.
SignTime_ClampToEpoch(t) ==
    LET c == calls[t]
    IN  /\ c.pc = "sign_time"
        /\ SetCall(t, [c EXCEPT !.pc = "sign_update",
                                !.timestamp = Some(NumToString(IF clock < 0 THEN 0
                                                               ELSE clock))])

\* generate_sign_nonce: SystemTime::now().duration_since(UNIX_EPOCH)?
\*                          .as_millis().to_string()
SignTime(t) ==
    LET c == calls[t]
    IN  /\ c.pc = "sign_time"
        /\ IF clock < 0
           THEN SetCall(t, IF c.op = "generate_sign_nonce"
                           THEN [c EXCEPT !.pc = "done",
                                          !.outcome = Some(Err(SystemTimeError))]
                           ELSE Return(c, Err(SystemTimeError)))
           ELSE SetCall(t, [c EXCEPT !.pc = "sign_update",
                                     !.timestamp = Some(NumToString(clock))])

\* Mutant of SignUpdate: the nonce is fed before the public key.
SignUpdate_NonceFirst(t) ==
    LET c == calls[t]
    IN  /\ c.pc = "sign_update"
        /\ SetCall(t, [c EXCEPT
              !.pc = "sign_finalize",
              !.mac = Some(MacUpdate(Unwrap(c.mac),
                                     Unwrap(c.timestamp) \o Unwrap(keys).public_key))])

\* Mutant of SignUpdate: the stored MAC context is updated, not a clone.
SignUpdate_InPlace(t) ==
    LET c == calls[t]
        fed == MacUpdate(Unwrap(keys).mac,
                         Unwrap(keys).public_key \o Unwrap(c.timestamp))
    IN  /\ c.pc = "sign_update"
        /\ keys' = Some([Unwrap(keys) EXCEPT !.mac = fed])
        /\ calls' = [calls EXCEPT ![t] = [c EXCEPT !.pc = "sign_finalize",
                                                   !.mac = Some(fed)]]
        /\ UNCHANGED <<id, url_cache, clock, keys_arg, id_arg>>

\* generate_sign_nonce: mac.update((public_key + &timestamp).as_bytes())
SignUpdate(t) ==
    LET c == calls[t]
    IN  /\ c.pc = "sign_update"
        /\ SetCall(t, [c EXCEPT
              !.pc = "sign_finalize",
              !.mac = Some(MacUpdate(Unwrap(c.mac),
                                     Unwrap(keys).public_key \o Unwrap(c.timestamp)))])

\* generate_sign_nonce: base64::encode(mac.finalize().into_bytes()), and the
\* returned pair (signature, timestamp).
SignFinalize(t) ==
    LET c == calls[t]
        pair == <<Base64Encode(MacFinalize(Unwrap(c.mac))), Unwrap(c.timestamp)>>
    IN  /\ c.pc = "sign_finalize"
        /\ SetCall(t, IF c.op = "generate_sign_nonce"
                      THEN [c EXCEPT !.pc = "done", !.outcome = Some(Ok(pair))]
                      ELSE [c EXCEPT !.pc = "headers", !.sign_nonce = Some(pair)])

\* Lines 140-142.
SetAuthHeaders(t) ==
    LET c == calls[t]
        sr == Unwrap(c.surf_request)
        sign == Unwrap(c.sign_nonce)[1]
        nonce == Unwrap(c.sign_nonce)[2]
        h1 == Insert(sr.headers, X_PCK, Unwrap(keys).public_key)
        h2 == Insert(h1, X_STAMP, nonce)
        h3 == Insert(h2, X_SIGNATURE, sign)
    IN  /\ c.pc = "headers"
        /\ SetCall(t, [c EXCEPT !.pc = "transmit",
                                !.surf_request = Some([sr EXCEPT !.headers = h3])])

\* Mutant of Transmit: a failed transmission is tried again.
Transmit_Retry(t) ==
    LET c == Stage(calls[t], "transmit")
    IN  /\ calls[t].pc = "transmit"
        /\ \/ SetCall(t, [c EXCEPT !.sent = @ + 1])
           \/ \E r \in Responses(c.D) :
                 SetCall(t, [c EXCEPT !.pc = "read", !.sent = @ + 1,
                                      !.response = Some(r)])

\* Line 147: self.http_client.send(surf_request).await?  The transport either
\* fails or hands back the response's head.
Transmit(t) ==
    LET c == Stage(calls[t], "transmit")
    IN  /\ calls[t].pc = "transmit"
        /\ \/ SetCall(t, Return([c EXCEPT !.sent = @ + 1], Err(SurfError)))
           \/ SetCall(t, Return(c, Err(SurfError)))
           \/ \E r \in Responses(c.D) :
                 SetCall(t, [c EXCEPT !.pc = "read", !.sent = @ + 1,
                                      !.response = Some(r)])

\* Mutant of ReadBody: the body is read into a buffer the calls share, so a
\* call may get the body of another call's response.
ReadBody_SharedBuffer(t) ==
    LET c == Stage(calls[t], "read")
    IN  /\ calls[t].pc = "read"
        /\ \/ SetCall(t, Return(c, Err(SurfError)))
           \/ \E u \in Tasks :
                 /\ IsSome(calls[u].response)
                 /\ SetCall(t, [c EXCEPT !.pc = "log",
                       !.response_string = Some(Unwrap(calls[u].response).body)])

\* Line 151: response.body_string().await?  Reading the body as text fails
\* (connection lost, body not text) or gives the body.
ReadBody(t) ==
    LET c == Stage(calls[t], "read")
    IN  /\ calls[t].pc = "read"
        /\ \/ SetCall(t, Return(c, Err(SurfError)))
           \/ SetCall(t, [c EXCEPT !.pc = "log",
                 !.response_string = Some(Unwrap(c.response).body)])

\* Mutant of LogBody: the body is traced only for a 200 response.
LogBody_OnlyOk(t) ==
    /\ calls[t].pc = "log"
    /\ IF Unwrap(calls[t].response).status = StatusOk
       THEN SetCall(t, [Stage(calls[t], "log") EXCEPT !.pc = "classify"])
       ELSE SetCall(t, [calls[t] EXCEPT !.pc = "classify"])

\* Line 153: log::debug!
LogBody(t) ==
    /\ calls[t].pc = "log"
    /\ SetCall(t, [Stage(calls[t], "log") EXCEPT !.pc = "classify"])

\* Mutant of Classify: the error is recorded but send goes on to decode.
Classify_FallThrough(t) ==
    LET c == Stage(calls[t], "classify")
        status_code == Unwrap(c.response).status
        response_string == Unwrap(c.response_string)
        response == FromStrResponse(response_string, c.D)
        code == IF response.ok THEN Some(ResponseCode(response.value)) ELSE None
        message == IF response.ok THEN ResponseMessage(response.value) ELSE None
    IN  /\ calls[t].pc = "classify"
        /\ IF status_code # StatusOk
           THEN SetCall(t, [Return(c, Err(BadStatusCode(status_code,
                                 response_string, code, message)))
                            EXCEPT !.pc = "decode"])
           ELSE SetCall(t, [c EXCEPT !.pc = "decode"])

\* Mutant of Classify: only server errors (5xx) are a bad status.
Classify_ServerErrorsOnly(t) ==
    LET c == Stage(calls[t], "classify")
        status_code == Unwrap(c.response).status
        response_string == Unwrap(c.response_string)
        response == FromStrResponse(response_string, c.D)
        code == IF response.ok THEN Some(ResponseCode(response.value)) ELSE None
        message == IF response.ok THEN ResponseMessage(response.value) ELSE None
    IN  /\ calls[t].pc = "classify"
        /\ IF status_code >= 500
           THEN SetCall(t, Return(c, Err(BadStatusCode(status_code,
                                             response_string, code, message))))
           ELSE SetCall(t, [c EXCEPT !.pc = "decode"])

\* Mutant of Classify: a body that does not decode fails the call with the
\* decoding error, bad status or not.
Classify_DecodeOrFail(t) ==
    LET c == Stage(calls[t], "classify")
        status_code == Unwrap(c.response).status
        response_string == Unwrap(c.response_string)
        response == FromStrResponse(response_string, c.D)
    IN  /\ calls[t].pc = "classify"
        /\ IF status_code # StatusOk
           THEN IF response.ok
                THEN SetCall(t, Return(c, Err(BadStatusCode(status_code,
                                     response_string,
                                     Some(ResponseCode(response.value)),
                                     ResponseMessage(response.value)))))
                ELSE SetCall(t, Return(c, Err(SerdeJsonError)))
           ELSE SetCall(t, [c EXCEPT !.pc = "decode"])

\* Lines 155-174.
Classify(t) ==
    LET c == Stage(calls[t], "classify")
        status_code == Unwrap(c.response).status
        response_string == Unwrap(c.response_string)
        response == FromStrResponse(response_string, c.D)
        code == IF response.ok THEN Some(ResponseCode(response.value)) ELSE None
        message == IF response.ok THEN ResponseMessage(response.value) ELSE None
    IN  /\ calls[t].pc = "classify"
        /\ IF status_code # StatusOk
           THEN SetCall(t, Return(c, Err(BadStatusCode(status_code,
                                             response_string, code, message))))
           ELSE SetCall(t, [c EXCEPT !.pc = "decode"])

\* Mutant of Decode: bare_data is ignored, every body is read as an envelope.
Decode_EnvelopeOnly(t) ==
    LET c == Stage(calls[t], "decode")
        response_string == Unwrap(c.response_string)
        response == FromStrResponse(response_string, c.D)
    IN  /\ calls[t].pc = "decode"
        /\ IF response.ok
           THEN SetCall(t, [c EXCEPT !.pc = "extract",
                                     !.decoded = Some(response.value)])
           ELSE SetCall(t, Return(c, Err(SerdeJsonError)))

\* Mutant of Decode: a body that does not decode is taken for an envelope with
\* success = true and no data.
Decode_NullOnFailure(t) ==
    LET c == Stage(calls[t], "decode")
        response_string == Unwrap(c.response_string)
        bare == FromStrBare(response_string, c.D)
        response == FromStrResponse(response_string, c.D)
        empty == [data |-> None, success |-> TRUE, message |-> None, code |-> 0]
    IN  /\ calls[t].pc = "decode"
        /\ IF c.bare_data
           THEN SetCall(t, Return(c, IF bare.ok THEN Ok(bare.value)
                                     ELSE Err(SerdeJsonError)))
           ELSE SetCall(t, [c EXCEPT !.pc = "extract",
                                     !.decoded = Some(IF response.ok
                                                      THEN response.value
                                                      ELSE empty)])

\* Lines 176-180.
Decode(t) ==
    LET c == Stage(calls[t], "decode")
        response_string == Unwrap(c.response_string)
        bare == FromStrBare(response_string, c.D)
        response == FromStrResponse(response_string, c.D)
    IN  /\ calls[t].pc = "decode"
        /\ IF c.bare_data
           THEN SetCall(t, Return(c, IF bare.ok THEN Ok(bare.value)
                                     ELSE Err(SerdeJsonError)))
           ELSE IF response.ok
                THEN SetCall(t, [c EXCEPT !.pc = "extract",
                                          !.decoded = Some(response.value)])
                ELSE SetCall(t, Return(c, Err(SerdeJsonError)))

\* Line 181: Ok(response.data()?)
Extract(t) ==
    LET c == Stage(calls[t], "extract")
        data == ResponseData(Unwrap(c.decoded))
    IN  /\ calls[t].pc = "extract"
        /\ SetCall(t, Return(c, IF data.ok THEN Ok(data.value)
                                ELSE Err(ResponseError(data.error))))

\* Mutant of AfterSend: every method turns an empty list into EmptyData.
AfterSend_EmptyIsError(op, result) ==
    IF ~result.ok THEN result
    ELSE IF result.value.items = <<>> THEN Err(ResponseError(EmptyData))
    ELSE IF op = "ticker" THEN Ok(Head(result.value.items))
    ELSE IF op = "cancel_order" THEN Ok("()")
    ELSE result

\* What the endpoint method does with the result of send.
AfterSend(op, result) ==
    CASE op = "ticker" ->
            IF ~result.ok THEN result
            ELSE IF result.value.items = <<>> THEN Err(ResponseError(EmptyData))
            ELSE Ok(Head(result.value.items))
      [] op = "cancel_order" ->
            IF ~result.ok THEN result ELSE Ok("()")
      [] OTHER -> result

\* send has returned to the endpoint method, which returns to its caller.
Complete(t) ==
    LET c == calls[t]
    IN  /\ c.pc = "returned"
        /\ SetCall(t, [c EXCEPT !.pc = "done",
                                !.outcome = Some(AfterSend(c.op, c.returned[1]))])

\* The caller takes the result; the task's borrow of the client ends.
Release(t) ==
    /\ calls[t].pc = "done"
    /\ SetCall(t, IdleCall)

-----------------------------------------------------------------------------
(* Calls of the endpoint methods, with their arguments drawn from small sets *)

PairSymbols == {"BTCUSDT"}

\* Option<u16>
Limits == {None, Some(1000), Some(1001), Some(65535)}

OrderIds == {None, Some(72183942)}

Ranges == {None, Some([start |-> 1, end |-> 2])}

SymbolLists == {<<>>, <<"btc", "try">>}

\* The method returns at once with an error, or calls send.
Begin(t, op, args, plan) ==
    /\ calls[t].pc = "idle"
    /\ IF plan.ok
       THEN SetCall(t, [IdleCall EXCEPT !.pc = "encode", !.op = op, !.args = args,
                                        !.request = Some(plan.value.request),
                                        !.bare_data = plan.value.bare_data,
                                        !.D = plan.value.D])
       ELSE SetCall(t, [IdleCall EXCEPT !.pc = "done", !.op = op, !.args = args,
                                        !.outcome = Some(Err(plan.error))])

CallTicker(t) ==
    \E p \in PairSymbols :
        Begin(t, "ticker", [pair_symbol |-> p], ticker(p))

CallTickers(t) ==
    Begin(t, "tickers", <<>>, tickers)

CallCurrency(t) ==
    \E s \in {Currency("Usdt")} :
        Begin(t, "currency", [symbol |-> s], currency(s))

CallTrades(t) ==
    \E p \in PairSymbols, l \in {None, Some(50), Some(51)} :
        Begin(t, "trades", [pair_symbol |-> p, last |-> l], trades(p, l))

CallExchangeInfo(t) ==
    Begin(t, "exchange_info", <<>>, exchange_info)

CallOrderBook(t) ==
    \E p \in PairSymbols, l \in Limits :
        Begin(t, "order_book", [pair_symbol |-> p, limit |-> l], order_book(p, l))

CallOhlc(t) ==
    \E p \in PairSymbols, r \in Ranges :
        Begin(t, "ohlc", [pair |-> p, range |-> r], ohlc(p, r))

CallAccountBalance(t) ==
    Begin(t, "account_balance", <<>>, account_balance)

CallAllOrders(t) ==
    \E o \in OrderIds, p \in PairSymbols, l \in Limits :
        LET r  == IF IsSome(o) THEN Some([start |-> 1, end |-> 2]) ELSE None
            pg == IF IsSome(o) THEN Some(3) ELSE None
        IN  Begin(t, "all_orders",
                  [order_id |-> o, pair_symbol |-> p, time_range |-> r,
                   page |-> pg, limit |-> l],
                  all_orders(o, p, r, pg, l))

CallOpenOrders(t) ==
    \E p \in PairSymbols :
        Begin(t, "open_orders", [pair_symbol |-> p], open_orders(p))

CallCancelOrder(t) ==
    \E o \in {72183942} :
        Begin(t, "cancel_order", [id |-> o], cancel_order(o))

CallMarket(t) ==
    \E p \in PairSymbols, q \in {[m |-> 10, s |-> 0]} :
        \/ Begin(t, "market_buy", [pair_symbol |-> p, quantity |-> q],
                 market_buy(p, q))
        \/ Begin(t, "market_sell", [pair_symbol |-> p, quantity |-> q],
                 market_sell(p, q))

CallLimit(t) ==
    \E p \in PairSymbols, pr \in {[m |-> 679, s |-> 3]}, q \in {[m |-> 15, s |-> 0]} :
        \/ Begin(t, "limit_buy", [pair_symbol |-> p, price |-> pr, quantity |-> q],
                 limit_buy(p, pr, q))
        \/ Begin(t, "limit_sell", [pair_symbol |-> p, price |-> pr, quantity |-> q],
                 limit_sell(p, pr, q))

CallStopLimit(t) ==
    \E p \in PairSymbols, pr \in {[m |-> 679, s |-> 3]}, sp \in {[m |-> 7, s |-> 1]},
       q \in {[m |-> 15, s |-> 0]} :
        \/ Begin(t, "stop_limit_buy",
                 [pair_symbol |-> p, price |-> pr, stop_price |-> sp, quantity |-> q],
                 stop_limit_buy(p, pr, sp, q))
        \/ Begin(t, "stop_limit_sell",
                 [pair_symbol |-> p, price |-> pr, stop_price |-> sp, quantity |-> q],
                 stop_limit_sell(p, pr, sp, q))

CallTradeTransactions(t) ==
    \E o \in OrderIds, sy \in SymbolLists :
        LET ty == IF sy = <<>> THEN None ELSE Some(OrderType("Buy"))
            r  == IF sy = <<>> THEN None ELSE Some([start |-> 1, end |-> 2])
        IN  Begin(t, "trade_transactions",
                  [order_id |-> o, type |-> ty, symbols |-> sy, date_range |-> r],
                  trade_transactions(o, ty, sy, r))

CallNormalTransactions(t) ==
    \E sy \in SymbolLists :
        LET ty == IF sy = <<>> THEN None ELSE Some(TransactionType("Deposit"))
            r  == IF sy = <<>> THEN None ELSE Some([start |-> 1, end |-> 2])
            a  == [type |-> ty, symbols |-> sy, date_range |-> r]
        IN  \/ Begin(t, "crypto_transactions", a, crypto_transactions(ty, sy, r))
            \/ Begin(t, "fiat_transactions", a, fiat_transactions(ty, sy, r))

\* The strings handed to ApiKeys::new: those above, and a private key that is
\* the base64 text of no bytes at all.
NewKeyStrings == KeyStrings \cup {<<"pk-A", Base64Encode(<<>>)>>}

\* A call of ApiKeys::new; its result is the call's outcome.
CallApiKeysNew(t) ==
    \E x \in NewKeyStrings :
        /\ calls[t].pc = "idle"
        /\ SetCall(t, [IdleCall EXCEPT
                         !.pc = "done",
                         !.op = "ApiKeys::new",
                         !.args = [public_key |-> x[1], private_key |-> x[2]],
                         !.outcome = Some(ApiKeysNew(x[1], x[2]))])

\* A direct call of ApiKeys::generate_sign_nonce on the client's keys.
CallGenerateSignNonce(t) ==
    /\ calls[t].pc = "idle"
    /\ IsSome(keys)
    /\ SetCall(t, [IdleCall EXCEPT !.pc = "sign_clone",
                                   !.op = "generate_sign_nonce"])

-----------------------------------------------------------------------------
(* A task building a Parameters value *)

PushNames == {"price", "quantity"}

Push(t, op, name, value, after) ==
    /\ calls[t].pc \in {"idle", "building"}
    /\ SetCall(t, [IdleCall EXCEPT
                     !.pc = "building",
                     !.parameters = after,
                     !.pushed = Some([op |-> op, name |-> name, value |-> value,
                                      before |-> calls[t].parameters,
                                      present |->
                                         (IF IsSome(calls[t].pushed)
                                          THEN Unwrap(calls[t].pushed).present
                                          ELSE {})
                                         \cup (IF IsSome(value) THEN {name}
                                               ELSE {})])])

PushString(t) ==
    \E n \in PushNames, v \in {None, Some("a")} :
        Push(t, "push_string", n, v, push_string(calls[t].parameters, n, v))

PushDecimal(t) ==
    \E n \in PushNames, v \in {None, Some([m |-> 679, s |-> 3])} :
        Push(t, "push_decimal", n, v, push_decimal(calls[t].parameters, n, v))

PushObject(t) ==
    \E n \in PushNames, v \in {None, Some(OrderType("Buy"))} :
        Push(t, "push_object", n, v, push_object(calls[t].parameters, n, v))

PushNumber(t) ==
    \E n \in PushNames, v \in {None, Some(1)} :
        Push(t, "push_number", n, v, push_number(calls[t].parameters, n, v))

\* The Parameters value is dropped.
DropParameters(t) ==
    /\ calls[t].pc = "building"
    /\ SetCall(t, IdleCall)

-----------------------------------------------------------------------------
(* Specifications *)

\* The steps of a call in flight.
Step(t) ==
    \/ Encode(t)
    \/ Auth(t)
    \/ SignClone(t)
    \/ SignTime(t)
    \/ SignUpdate(t)
    \/ SignFinalize(t)
    \/ SetAuthHeaders(t)
    \/ Transmit(t)
    \/ ReadBody(t)
    \/ LogBody(t)
    \/ Classify(t)
    \/ Decode(t)
    \/ Extract(t)
    \/ Complete(t)
    \/ Release(t)

\* One caller using the client: every endpoint method, one call at a time.
Caller(t) ==
    \/ CallTicker(t)
    \/ CallTickers(t)
    \/ CallCurrency(t)
    \/ CallTrades(t)
    \/ CallExchangeInfo(t)
    \/ CallOrderBook(t)
    \/ CallOhlc(t)
    \/ CallAccountBalance(t)
    \/ CallAllOrders(t)
    \/ CallOpenOrders(t)
    \/ CallCancelOrder(t)
    \/ CallMarket(t)
    \/ CallLimit(t)
    \/ CallStopLimit(t)
    \/ CallTradeTransactions(t)
    \/ CallNormalTransactions(t)
    \/ CallApiKeysNew(t)
    \/ CallGenerateSignNonce(t)
    \/ PushString(t)
    \/ PushDecimal(t)
    \/ PushObject(t)
    \/ PushNumber(t)
    \/ DropParameters(t)

Next ==
    \/ Tick
    \/ SetKeys
    \/ SetId
    \/ Caller(1)
    \/ \E t \in Tasks : Step(t)

Spec == Init /\ [][Next]_vars

\* Two callers with a call each on the client they share (send takes &self):
\* each cancels an order of its own (a signed request), and the second may ask
\* for the exchange information instead (a request that is not signed).
Callers == {1, 2}

CallConcurrently(t) ==
    \/ Begin(t, "cancel_order", [id |-> t], cancel_order(t))
    \/ /\ t = 2
       /\ Begin(t, "exchange_info", <<>>, exchange_info)

NextConcurrent ==
    \/ Tick
    \/ SetKeys
    \/ \E t \in Callers :
          \/ CallConcurrently(t)
          \/ Step(t)

SpecConcurrent == Init /\ [][NextConcurrent]_vars

\* Tasks signing concurrently with the keys they share.
NextSign ==
    \/ Tick
    \/ SetKeys
    \/ \E t \in Tasks :
          \/ CallGenerateSignNonce(t)
          \/ SignClone(t)
          \/ SignTime(t)
          \/ SignUpdate(t)
          \/ SignFinalize(t)
          \/ Release(t)

SpecSign == Init /\ [][NextSign]_vars

-----------------------------------------------------------------------------
(* Properties *)

\* C1: a send call with requires_auth = true made while the client has no
\* keys returns AuthenticationRequired and transmits nothing, and every
\* private operation calls send with requires_auth = true.
C1_AuthGating ==
    \A t \in Tasks :
        LET c == calls[t]
        IN  /\ (IsSome(c.request)
                /\ c.op \in {"account_balance", "all_orders", "open_orders",
                             "cancel_order", "market_buy", "market_sell",
                             "limit_buy", "limit_sell", "stop_limit_buy",
                             "stop_limit_sell", "trade_transactions",
                             "crypto_transactions", "fiat_transactions"})
                  => Unwrap(c.request).requires_auth
            /\ (IsSome(c.request) /\ Unwrap(c.request).requires_auth /\ keys = None)
                  => /\ c.sent = 0
                     /\ c.response = None
                     /\ c.pc \in {"encode", "auth", "returned", "done"}
                     /\ c.pc \in {"returned", "done"}
                           => c.returned = <<Err(AuthenticationRequired)>>
                     /\ c.pc = "done"
                           => c.outcome = Some(Err(AuthenticationRequired))

C1_Witness ==
    \E t \in Tasks :
        /\ calls[t].pc = "done"
        /\ calls[t].op = "market_buy"
        /\ keys = None
        /\ calls[t].sent = 0
        /\ calls[t].outcome = Some(Err(AuthenticationRequired))

\* C2: the result of extracting a decoded envelope depends on the envelope
\* alone: success = false gives Unsuccessful with the envelope's code and
\* message whatever data holds, success = true with null data gives NullData,
\* success = true with data v gives Ok(v).
C2_EnvelopeExtraction ==
    \A t \in Tasks :
        LET c == calls[t]
        IN  (IsSome(c.decoded) /\ c.pc \in {"returned", "done"})
               => LET e == Unwrap(c.decoded)
                  IN  c.returned =
                        <<IF ~e.success
                          THEN Err([kind |-> "ResponseError",
                                    source |-> [kind |-> "Unsuccessful",
                                                code |-> e.code,
                                                message |-> e.message]])
                          ELSE IF e.data = None
                          THEN Err([kind |-> "ResponseError",
                                    source |-> [kind |-> "NullData"]])
                          ELSE Ok(e.data[1])>>

C2_Witness ==
    \E t \in Tasks :
        /\ calls[t].pc = "returned"
        /\ IsSome(calls[t].decoded)
        /\ ~Unwrap(calls[t].decoded).success
        /\ IsSome(Unwrap(calls[t].decoded).data)
        /\ ~calls[t].returned[1].ok
        /\ calls[t].returned[1].error.source.code = 1037

\* C3 as stated: whenever the response has a status other than 200, the call
\* returns BadStatusCode with that status and the raw body.
C3_Original ==
    \A t \in Tasks :
        LET c == calls[t]
        IN  (IsSome(c.response) /\ Unwrap(c.response).status # 200
             /\ c.pc \in {"returned", "done"})
               => /\ Len(c.returned) = 1
                  /\ ~c.returned[1].ok
                  /\ c.returned[1].error.kind = "BadStatusCode"
                  /\ c.returned[1].error.status_code = Unwrap(c.response).status
                  /\ c.returned[1].error.response_string = Unwrap(c.response).body

\* C3 (amended): whenever the response has a status other than 200 and its
\* body has been read as text, the call returns BadStatusCode with that status
\* and the raw body, whatever the status and the body are; when reading the
\* body fails the call returns SurfError.
C3_BadStatus ==
    \A t \in Tasks :
        LET c == calls[t]
        IN  (IsSome(c.response) /\ Unwrap(c.response).status # 200
             /\ c.pc \in {"returned", "done"})
               => /\ Len(c.returned) = 1
                  /\ ~c.returned[1].ok
                  /\ IF IsSome(c.response_string)
                     THEN /\ c.returned[1].error.kind = "BadStatusCode"
                          /\ c.returned[1].error.status_code = Unwrap(c.response).status
                          /\ c.returned[1].error.response_string = Unwrap(c.response).body
                     ELSE c.returned[1].error.kind = "SurfError"

C3_Witness ==
    \E t \in Tasks :
        LET c == calls[t]
        IN  /\ c.pc = "returned"
            /\ IsSome(c.response_string)
            /\ Unwrap(c.response).status = 400
            /\ Unwrap(c.response).body.kind = "envelope"
            /\ Unwrap(c.response).body.success
            /\ IsSome(Unwrap(c.response).body.data)
            /\ c.returned[1].error.kind = "BadStatusCode"

\* C4: a send call ends in exactly one outcome, the payload or one
\* SendRequest error: nothing is produced before it ends, and never two.
C4_OneOutcome ==
    \A t \in Tasks :
        LET c == calls[t]
        IN  /\ Len(c.returned) <= 1
            /\ c.pc = "returned" => Len(c.returned) = 1
            /\ (c.pc = "done" /\ IsSome(c.request))
                  => (Len(c.returned) = 1 /\ IsSome(c.outcome))
            /\ c.pc \notin {"returned", "done"}
                  => (c.returned = <<>> /\ c.outcome = None)
            /\ \A i \in 1..Len(c.returned) :
                  LET r == c.returned[i]
                  IN  \/ r.ok /\ DOMAIN r = {"ok", "value"}
                      \/ /\ ~r.ok
                         /\ DOMAIN r = {"ok", "error"}
                         /\ r.error.kind \in
                              {"AuthenticationRequired", "BadStatusCode",
                               "SystemTimeError", "SurfError", "SerdeJsonError",
                               "ResponseError", "ParameterError"}

C4_Witness ==
    \E t \in Tasks :
        /\ calls[t].pc = "done"
        /\ IsSome(calls[t].request)
        /\ IsSome(calls[t].response)
        /\ Unwrap(calls[t].response).status = 503
        /\ Len(calls[t].returned) = 1
        /\ ~calls[t].returned[1].ok
        /\ calls[t].returned[1].error.kind = "BadStatusCode"
        /\ calls[t].outcome = Some(calls[t].returned[1])

\* C5: one send call transmits at most one request; its stages run in the
\* order encode, auth, transmit, read, classify, decode, extract; the stage
\* that fails is the last one that runs, and nothing runs after a return.
C5_StagesInOrder ==
    \A t \in Tasks :
        LET c == calls[t]
            order == <<"encode", "auth", "transmit", "read", "classify",
                       "decode", "extract">>
            stages == SelectSeq(c.trace, LAMBDA x : x # "log")
            last == stages[Len(stages)]
        IN  /\ c.sent <= 1
            /\ Len(stages) <= Len(order)
            /\ stages = SubSeq(order, 1, Len(stages))
            /\ c.sent = 1 => Len(stages) >= 3
            /\ Len(c.returned) >= 1 => c.pc \in {"returned", "done"}
            /\ (c.pc \in {"returned", "done"} /\ Len(c.returned) >= 1)
                  => LET r == c.returned[1]
                     IN  IF r.ok THEN last \in {"decode", "extract"}
                         ELSE CASE r.error.kind \in {"AuthenticationRequired",
                                                     "SystemTimeError"}
                                      -> last = "auth" /\ c.sent = 0
                                [] r.error.kind = "SurfError"
                                      -> last \in {"transmit", "read"}
                                [] r.error.kind = "BadStatusCode"
                                      -> last = "classify"
                                [] r.error.kind = "SerdeJsonError"
                                      -> last \in {"encode", "decode"}
                                [] r.error.kind = "ResponseError"
                                      -> last = "extract"
                                [] OTHER -> FALSE

C5_Witness ==
    \E t \in Tasks :
        /\ calls[t].pc = "done"
        /\ calls[t].sent = 1
        /\ calls[t].returned[1].ok
        /\ calls[t].trace = <<"encode", "auth", "transmit", "read", "log",
                              "classify", "decode", "extract">>

\* C6: the X-Signature header of an authenticated request is the base64 text
\* of the HMAC-SHA256, keyed with the base64-decoded private key, of the
\* public key followed at once by the nonce, where the nonce is the X-Stamp
\* header and the public key the X-PCK header of the same request.
C6_Signature ==
    \A t \in Tasks :
        LET c == calls[t]
        IN  (IsSome(c.surf_request)
             /\ X_SIGNATURE \in DOMAIN Unwrap(c.surf_request).headers)
               => LET h == Unwrap(c.surf_request).headers
                      k == Unwrap(keys)
                  IN  /\ {X_PCK, X_STAMP} \subseteq DOMAIN h
                      /\ h[X_PCK] = k.public_key
                      /\ "base64" \in DOMAIN k.private_key
                      /\ h[X_SIGNATURE] =
                           [base64 |-> [hmac_sha256_key |-> k.private_key.base64,
                                        msg |-> h[X_PCK] \o h[X_STAMP]]]

C6_Witness ==
    \E t \in Tasks :
        LET c == calls[t]
        IN  /\ c.pc = "read"
            /\ c.sent = 1
            /\ X_SIGNATURE \in DOMAIN Unwrap(c.surf_request).headers
            /\ Unwrap(c.surf_request).headers[X_STAMP] = "1"
            /\ Unwrap(c.surf_request).headers[X_PCK] = "pk-B7"

\* C7: however concurrent generate_sign_nonce calls on shared keys interleave,
\* the stored MAC context stays the one made at construction (keyed, nothing
\* fed), and every signature is the one an isolated call with the same public
\* key, secret and nonce gives.
C7_SigningIsStateless ==
    /\ IsSome(keys)
          => Unwrap(keys).mac = [key  |-> Unwrap(keys).private_key.base64,
                                 data |-> ""]
    /\ \A t \in Tasks :
          LET c == calls[t]
          IN  (c.pc = "done" /\ c.op = "generate_sign_nonce" /\ Unwrap(c.outcome).ok)
                 => LET pair == Unwrap(c.outcome).value
                        k == Unwrap(keys)
                    IN  pair[1] =
                          [base64 |-> [hmac_sha256_key |-> k.private_key.base64,
                                       msg |-> k.public_key \o pair[2]]]

C7_Witness ==
    \E t1, t2 \in Tasks :
        /\ t1 # t2
        /\ calls[t1].pc = "done"
        /\ calls[t2].pc = "done"
        /\ IsSome(calls[t1].outcome)
        /\ IsSome(calls[t2].outcome)
        /\ Unwrap(calls[t1].outcome).ok
        /\ Unwrap(calls[t2].outcome).ok
        /\ Unwrap(calls[t1].outcome).value[2] = "0"
        /\ Unwrap(calls[t2].outcome).value[2] = "1"

\* C8: order_book and all_orders called with limit > 1000 return
\* ParameterError with name "limit" and the limit in decimal as value, and
\* never reach send; with limit <= 1000 or no limit they call send, with the
\* limit (if any) among the parameters, and do not return ParameterError.
C8_LimitValidation ==
    \A t \in Tasks :
        LET c == calls[t]
        IN  (c.op \in {"order_book", "all_orders"})
               => IF IsSome(c.args.limit) /\ c.args.limit[1] > 1000
                  THEN /\ c.pc = "done"
                       /\ c.request = None
                       /\ c.trace = <<>>
                       /\ c.sent = 0
                       /\ c.outcome =
                            Some(Err([kind |-> "ParameterError",
                                      source |->
                                        [name  |-> "limit",
                                         value |-> CASE c.args.limit[1] = 1001 -> "1001"
                                                     [] c.args.limit[1] = 65535 -> "65535"]]))
                  ELSE /\ IsSome(c.request)
                       /\ c.pc # "idle"
                       /\ IF IsSome(c.args.limit)
                          THEN /\ "limit" \in DOMAIN Unwrap(c.request).parameters
                               /\ Unwrap(c.request).parameters["limit"] =
                                     [Number |-> c.args.limit[1]]
                          ELSE "limit" \notin DOMAIN Unwrap(c.request).parameters
                       /\ IsSome(c.outcome)
                             => (Unwrap(c.outcome).ok
                                 \/ Unwrap(c.outcome).error.kind # "ParameterError")

C8_Witness ==
    \E t \in Tasks :
        /\ calls[t].op = "order_book"
        /\ calls[t].args.limit = Some(1001)
        /\ calls[t].pc = "done"
        /\ calls[t].sent = 0
        /\ IsSome(calls[t].outcome)
        /\ ~Unwrap(calls[t].outcome).ok
        /\ Unwrap(calls[t].outcome).error.kind = "ParameterError"
        /\ Unwrap(calls[t].outcome).error.source.value = "1001"

\* C9: a push operation given None leaves the parameter map as it was; no
\* request carries a null value, in its parameters, its query or its body; the
\* body of a market order has the key quantity and neither price nor
\* stopPrice.
C9_AbsentValuesOmitted ==
    \A t \in Tasks :
        LET c == calls[t]
        IN  /\ (IsSome(c.pushed) /\ Unwrap(c.pushed).value = None)
                  => c.parameters = Unwrap(c.pushed).before
            /\ IsSome(c.request)
                  => \A n \in DOMAIN Unwrap(c.request).parameters :
                        "Null" \notin DOMAIN Unwrap(c.request).parameters[n]
            /\ IsSome(c.surf_request)
                  => LET sr == Unwrap(c.surf_request)
                     IN  /\ \A i \in 1..Len(sr.url.query) :
                               sr.url.query[i][2] # "null"
                         /\ IsSome(sr.body)
                               => \A i \in 1..Len(Unwrap(sr.body).json_object) :
                                     "json_null" \notin
                                        DOMAIN Unwrap(sr.body).json_object[i][2]
            /\ (c.op \in {"market_buy", "market_sell"} /\ IsSome(c.surf_request))
                  => LET sr == Unwrap(c.surf_request)
                         members == {Unwrap(sr.body).json_object[i][1] :
                                       i \in 1..Len(Unwrap(sr.body).json_object)}
                     IN  /\ IsSome(sr.body)
                         /\ "quantity" \in members
                         /\ "price" \notin members
                         /\ "stopPrice" \notin members

C9_Witness ==
    \E t \in Tasks :
        LET c == calls[t]
        IN  /\ c.op = "market_buy"
            /\ c.sent = 1
            /\ id = None
            /\ IsSome(Unwrap(c.surf_request).body)
            /\ Len(Unwrap(Unwrap(c.surf_request).body).json_object) = 4

\* C10: the keys an authenticated call uses are those given to the latest
\* Client::new or set_keys: when that was None the call returns
\* AuthenticationRequired, and when it was Some(k) the call is signed with k's
\* public key and secret and does not return AuthenticationRequired.
C10_LatestKeys ==
    /\ keys = keys_arg
    /\ \A t \in Tasks :
          LET c == calls[t]
          IN  (IsSome(c.request) /\ Unwrap(c.request).requires_auth
               /\ c.pc \in {"transmit", "read", "log", "classify", "decode",
                            "extract", "returned", "done"})
                 => IF keys_arg = None
                    THEN c.returned = <<Err(AuthenticationRequired)>>
                    ELSE /\ c.returned # <<Err(AuthenticationRequired)>>
                         /\ LET h == Unwrap(c.surf_request).headers
                                k == Unwrap(keys_arg)
                            IN  \/ c.returned = <<Err(SystemTimeError)>>
                                \/ /\ X_SIGNATURE \in DOMAIN h
                                   /\ h[X_PCK] = k.public_key
                                   /\ h[X_SIGNATURE].base64.hmac_sha256_key
                                         = k.private_key.base64

C10_Witness ==
    \E t \in Tasks :
        LET c == calls[t]
        IN  /\ c.pc = "done"
            /\ c.op = "open_orders"
            /\ c.sent = 1
            /\ IsSome(keys_arg)
            /\ Unwrap(c.surf_request).headers[X_PCK] = Unwrap(keys_arg).public_key
            /\ c.returned[1].ok

\* C11: ticker returns EmptyData when the server answers 200 with a successful
\* envelope whose data is an empty list, and the first element of a non-empty
\* list; send itself never returns EmptyData, and every other method returns
\* the list it got, empty or not, as Ok.
C11_EmptyDataAtTicker ==
    \A t \in Tasks :
        LET c == calls[t]
        IN  /\ \A i \in 1..Len(c.returned) :
                  (~c.returned[i].ok /\ c.returned[i].error.kind = "ResponseError")
                     => c.returned[i].error.source.kind # "EmptyData"
            /\ (c.pc = "done" /\ IsSome(c.response_string)
                /\ Unwrap(c.response).status = 200 /\ c.D \in ListTypes)
                  => LET body == Unwrap(c.response).body
                     IN  /\ (~c.bare_data /\ body.kind = "envelope" /\ body.success
                             /\ IsSome(body.data) /\ Unwrap(body.data).type = c.D)
                               => LET items == Unwrap(body.data).items
                                  IN  c.outcome =
                                        Some(IF c.op # "ticker"
                                             THEN Ok(Unwrap(body.data))
                                             ELSE IF items = <<>>
                                             THEN Err([kind |-> "ResponseError",
                                                       source |-> [kind |-> "EmptyData"]])
                                             ELSE Ok(items[1]))
                         /\ (c.bare_data /\ body.kind = "bare"
                             /\ body.payload.type = c.D)
                               => c.outcome = Some(Ok(body.payload))

C11_Witness ==
    \E t \in Tasks :
        LET c == calls[t]
        IN  /\ c.pc = "done"
            /\ c.op = "ticker"
            /\ IsSome(c.response_string)
            /\ Unwrap(c.response).status = 200
            /\ Unwrap(c.response).body.kind = "envelope"
            /\ Unwrap(c.response).body.success
            /\ IsSome(Unwrap(c.response).body.data)
            /\ Unwrap(Unwrap(c.response).body.data).type = "Vec<Ticker>"
            /\ Unwrap(Unwrap(c.response).body.data).items = <<>>
            /\ c.returned = <<Ok(Unwrap(Unwrap(c.response).body.data))>>
            /\ c.outcome = Some(Err(ResponseError(EmptyData)))

\* C12 as stated: cancel_order returns Ok(()) whenever the server answers 200
\* with an envelope whose success is true, whatever its data field holds.
C12_Original ==
    \A t \in Tasks :
        LET c == calls[t]
        IN  (c.op = "cancel_order" /\ c.pc = "done" /\ IsSome(c.response_string)
             /\ Unwrap(c.response).status = 200
             /\ Unwrap(c.response).body.kind = "envelope"
             /\ Unwrap(c.response).body.success)
               => c.outcome = Some(Ok("()"))

\* C13: only ohlc calls send with bare_data = true; a bare call answered with
\* status 200 returns the body decoded as the payload type, or a serialization
\* error when the body is not such a payload; the envelope rule is not applied,
\* so the call never returns Unsuccessful or NullData.
C13_BareEndpoint ==
    \A t \in Tasks :
        LET c == calls[t]
        IN  /\ IsSome(c.request) => (c.bare_data <=> c.op = "ohlc")
            /\ c.bare_data
                  => /\ c.decoded = None
                     /\ \A i \in 1..Len(c.trace) : c.trace[i] # "extract"
                     /\ \A i \in 1..Len(c.returned) :
                           ~c.returned[i].ok
                              => c.returned[i].error.kind # "ResponseError"
            /\ (c.bare_data /\ c.pc \in {"returned", "done"}
                /\ IsSome(c.response_string) /\ Unwrap(c.response).status = 200)
                  => LET body == Unwrap(c.response).body
                     IN  c.returned =
                           <<IF body.kind = "bare" /\ body.payload.type = c.D
                             THEN Ok(body.payload)
                             ELSE Err([kind |-> "SerdeJsonError"])>>

C13_Witness ==
    \E t \in Tasks :
        LET c == calls[t]
        IN  /\ c.op = "ohlc"
            /\ c.pc = "returned"
            /\ IsSome(c.response_string)
            /\ Unwrap(c.response).status = 200
            /\ Unwrap(c.response).body.kind = "envelope"
            /\ ~Unwrap(c.response).body.success
            /\ c.returned = <<Err(SerdeJsonError)>>

\* C14: the encoding of the parameters depends on the method alone: a GET or
\* DELETE request has no body and exactly one query pair per parameter, a
\* string as it is and a number in decimal, on the endpoint's URL; a POST
\* request has no query pair and a body that is one JSON object with one
\* member per parameter.
C14_EncodingByMethod ==
    \A t \in Tasks :
        LET c == calls[t]
        IN  IsSome(c.surf_request)
               => LET r == Unwrap(c.request)
                      sr == Unwrap(c.surf_request)
                      P == r.parameters
                      text(v) == IF "String" \in DOMAIN v THEN v.String
                                 ELSE NumToString(v.Number)
                  IN  /\ r.method \in {"Get", "Delete", "Post"}
                      /\ sr.method = r.method
                      /\ sr.url.endpoint = r.endpoint
                      /\ IF r.method \in {"Get", "Delete"}
                         THEN /\ sr.body = None
                              /\ Len(sr.url.query) = Cardinality(DOMAIN P)
                              /\ \A k \in DOMAIN P :
                                    \E i \in 1..Len(sr.url.query) :
                                        sr.url.query[i] = <<k, text(P[k])>>
                         ELSE /\ sr.url.query = <<>>
                              /\ IsSome(sr.body)
                              /\ LET members == Unwrap(sr.body).json_object
                                 IN  /\ Len(members) = Cardinality(DOMAIN P)
                                     /\ \A k \in DOMAIN P :
                                           \E i \in 1..Len(members) :
                                               /\ members[i][1] = k
                                               /\ members[i][2] =
                                                    IF "String" \in DOMAIN P[k]
                                                    THEN [json_string |-> P[k].String]
                                                    ELSE [json_number |->
                                                            NumToString(P[k].Number)]

C14_Witness ==
    \E t \in Tasks :
        LET c == calls[t]
        IN  /\ c.op = "cancel_order"
            /\ c.sent = 1
            /\ IsSome(c.surf_request)
            /\ Unwrap(c.surf_request).method = "Delete"
            /\ Unwrap(c.surf_request).body = None
            /\ Unwrap(c.surf_request).url.query = <<<<"id", "72183942">>>>

\* C15: a request carries the headers X-PCK, X-Stamp and X-Signature only when
\* requires_auth is true and the client holds keys, and then all three; a
\* request with requires_auth = false carries none of them, keys or no keys;
\* a request handed to the transport carries all three exactly when
\* requires_auth is true.
C15_AuthHeaders ==
    \A t \in Tasks :
        LET c == calls[t]
            AuthHeaders == {X_PCK, X_STAMP, X_SIGNATURE}
        IN  IsSome(c.surf_request)
               => LET r == Unwrap(c.request)
                      h == DOMAIN Unwrap(c.surf_request).headers
                      transmitting ==
                          \/ c.pc = "transmit"
                          \/ \E i \in 1..Len(c.trace) : c.trace[i] = "transmit"
                  IN  /\ (AuthHeaders \cap h # {})
                            => (r.requires_auth /\ IsSome(keys) /\ AuthHeaders \subseteq h)
                      /\ ~r.requires_auth => AuthHeaders \cap h = {}
                      /\ transmitting
                            => /\ (AuthHeaders \subseteq h) <=> r.requires_auth
                               /\ r.requires_auth => IsSome(keys)

C15_Witness ==
    \E t \in Tasks :
        LET c == calls[t]
        IN  /\ c.op = "ticker"
            /\ IsSome(keys)
            /\ c.sent = 1
            /\ IsSome(c.response)
            /\ IsSome(c.surf_request)
            /\ DOMAIN Unwrap(c.surf_request).headers = {"Content-Type"}

\* C16: ApiKeys::new given a private key that is not base64 returns an error
\* and no ApiKeys; an error result never holds an ApiKeys; when it succeeds,
\* the MAC of the ApiKeys is keyed with the base64-decoded private key and has
\* been fed nothing, and the keys a client holds are of that form.
C16_ApiKeysNew ==
    /\ IsSome(keys)
          => /\ "base64" \in DOMAIN Unwrap(keys).private_key
             /\ Unwrap(keys).mac.key = Unwrap(keys).private_key.base64
    /\ \A t \in Tasks :
          LET c == calls[t]
          IN  (c.op = "ApiKeys::new" /\ c.pc = "done")
                 => LET out == Unwrap(c.outcome)
                        given == c.args.private_key
                    IN  /\ "base64" \notin DOMAIN given => ~out.ok
                        /\ ~out.ok => DOMAIN out = {"ok", "error"}
                        /\ out.ok
                              => /\ out.value.mac = [key  |-> given.base64,
                                                     data |-> ""]
                                 /\ out.value.public_key = c.args.public_key
                                 /\ out.value.private_key = given

C16_Witness ==
    \E t \in Tasks :
        LET c == calls[t]
        IN  /\ c.op = "ApiKeys::new"
            /\ c.pc = "done"
            /\ "base64" \notin DOMAIN c.args.private_key
            /\ IsSome(c.outcome)
            /\ ~Unwrap(c.outcome).ok
            /\ Unwrap(c.outcome).error = "DecodeError"

\* C17 as stated: stop_limit_buy and stop_limit_sell submit a POST order whose
\* orderMethod is "stoplimit", with quantity, price and stopPrice present and
\* orderType buy or sell respectively.
C17_Original ==
    \A t \in Tasks :
        LET c == calls[t]
        IN  (c.op \in {"stop_limit_buy", "stop_limit_sell"} /\ IsSome(c.request))
               => LET r == Unwrap(c.request)
                  IN  /\ r.method = "Post"
                      /\ {"orderMethod", "orderType", "quantity", "price",
                          "stopPrice"} \subseteq DOMAIN r.parameters
                      /\ r.parameters["orderMethod"] = [String |-> "stoplimit"]
                      /\ r.parameters["orderType"] =
                            [String |-> IF c.op = "stop_limit_buy" THEN "buy"
                                        ELSE "sell"]

\* C18 as stated: every symbol of the list given to trade_transactions (with
\* no order id), crypto_transactions or fiat_transactions is sent as a request
\* parameter: n distinct symbols give n symbol parameters.
C18_Original ==
    \A t \in Tasks :
        LET c == calls[t]
        IN  (c.op \in {"trade_transactions", "crypto_transactions",
                       "fiat_transactions"}
             /\ IsSome(c.surf_request)
             /\ (c.op = "trade_transactions" => c.args.order_id = None))
               => LET query == Unwrap(c.surf_request).url.query
                      symbols == c.args.symbols
                  IN  /\ \A j \in 1..Len(symbols) :
                            \E i \in 1..Len(query) :
                                query[i] = <<"symbol", symbols[j]>>
                      /\ Cardinality({i \in 1..Len(query) : query[i][1] = "symbol"})
                            = Len(symbols)

\* C19: a response with a status other than 200 whose body has been read
\* gives BadStatusCode and never a serialization error: with code and message
\* both absent when the body is not an envelope of the payload type, and with
\* the envelope's code and message when it is.
C19_BadStatusDiagnostics ==
    \A t \in Tasks :
        LET c == calls[t]
        IN  (c.pc \in {"returned", "done"} /\ IsSome(c.response_string)
             /\ Unwrap(c.response).status # 200)
               => LET body == Unwrap(c.response).body
                      isEnvelope ==
                          /\ body.kind = "envelope"
                          /\ \/ body.data = None
                             \/ /\ c.D # "EmptyResponse"
                                /\ Unwrap(body.data).type = c.D
                  IN  /\ Len(c.returned) = 1
                      /\ ~c.returned[1].ok
                      /\ c.returned[1].error.kind = "BadStatusCode"
                      /\ c.returned[1].error.code =
                            IF isEnvelope THEN <<body.code>> ELSE <<>>
                      /\ c.returned[1].error.message =
                            IF isEnvelope THEN body.message ELSE <<>>

C19_Witness ==
    \E t \in Tasks :
        LET c == calls[t]
        IN  /\ c.pc = "returned"
            /\ IsSome(c.response_string)
            /\ Unwrap(c.response).status = 503
            /\ Unwrap(c.response).body.kind = "garbage"
            /\ Len(c.returned) = 1
            /\ ~c.returned[1].ok
            /\ c.returned[1].error.kind = "BadStatusCode"
            /\ c.returned[1].error.code = None
            /\ c.returned[1].error.message = None

\* C20: a call of an enveloped endpoint answered with status 200 and a body
\* that is not an envelope of the payload type returns a serialization error
\* and extracts nothing; the extraction rule runs only on an envelope that was
\* decoded, and that envelope holds the fields of the body.
C20_DecodeBeforeExtract ==
    \A t \in Tasks :
        LET c == calls[t]
            extracted == \E i \in 1..Len(c.trace) : c.trace[i] = "extract"
        IN  /\ extracted => IsSome(c.decoded)
            /\ (IsSome(c.request) /\ ~c.bare_data /\ c.pc \in {"returned", "done"}
                /\ IsSome(c.response_string) /\ Unwrap(c.response).status = 200)
                  => LET body == Unwrap(c.response).body
                         isEnvelope ==
                             /\ body.kind = "envelope"
                             /\ \/ body.data = None
                                \/ /\ c.D # "EmptyResponse"
                                   /\ Unwrap(body.data).type = c.D
                     IN  IF isEnvelope
                         THEN /\ extracted
                              /\ c.decoded = <<[data    |-> body.data,
                                                success |-> body.success,
                                                message |-> body.message,
                                                code    |-> body.code]>>
                              /\ \/ c.returned[1].ok
                                 \/ c.returned[1].error.kind = "ResponseError"
                         ELSE /\ ~extracted
                              /\ c.decoded = None
                              /\ c.returned = <<Err([kind |-> "SerdeJsonError"])>>

C20_Witness ==
    \E t \in Tasks :
        LET c == calls[t]
        IN  /\ c.op = "open_orders"
            /\ c.pc = "returned"
            /\ IsSome(c.response_string)
            /\ Unwrap(c.response).status = 200
            /\ Unwrap(c.response).body.kind = "envelope"
            /\ ~Unwrap(c.response).body.success
            /\ IsSome(Unwrap(c.response).body.data)
            /\ Unwrap(Unwrap(c.response).body.data).type = "Unexpected"
            /\ c.decoded = None
            /\ c.returned = <<Err(SerdeJsonError)>>

\* C21: when the clock reads before the epoch as an authenticated request is
\* signed, send returns the clock error and transmits nothing (the clock never
\* runs backwards, so a clock before the epoch now was before it then); a call
\* that returned the clock error has transmitted nothing, and a call that got
\* its timestamp does not return the clock error.
C21_ClockBeforeEpoch ==
    \A t \in Tasks :
        LET c == calls[t]
            failed == c.returned = <<Err([kind |-> "SystemTimeError"])>>
        IN  IsSome(c.request)
               => /\ (clock < 0 /\ Unwrap(c.request).requires_auth /\ IsSome(keys)
                      /\ c.pc \notin {"encode", "auth", "sign_clone", "sign_time"})
                        => /\ failed
                           /\ c.sent = 0
                           /\ c.response = None
                           /\ c.timestamp = None
                  /\ failed
                        => /\ c.sent = 0
                           /\ c.response = None
                           /\ c.trace = <<"encode", "auth">>
                           /\ Unwrap(c.request).requires_auth
                  /\ IsSome(c.timestamp) => ~failed

C21_Witness ==
    \E t \in Tasks :
        LET c == calls[t]
        IN  /\ c.op = "open_orders"
            /\ c.pc = "done"
            /\ IsSome(keys)
            /\ clock < 0
            /\ c.sent = 0
            /\ c.returned = <<Err(SystemTimeError)>>
            /\ c.outcome = Some(Err(SystemTimeError))

\* C22 as stated: a send call that fails on the clock while computing the
\* nonce returns the variant that reports network and HTTP-stack failures
\* (SurfError).
C22_Original ==
    \A t \in Tasks :
        LET c == calls[t]
        IN  (IsSome(c.request) /\ Unwrap(c.request).requires_auth /\ IsSome(keys)
             /\ c.pc \in {"returned", "done"} /\ c.trace = <<"encode", "auth">>)
               => /\ Len(c.returned) = 1
                  /\ ~c.returned[1].ok
                  /\ c.returned[1].error.kind = "SurfError"

\* C22 (amended): a send call that fails on the clock while computing the
\* nonce returns the SystemTimeError variant, a variant of its own; a call
\* that fails in the transport, transmitting or reading the body, returns the
\* SurfError variant.
C22_ClockErrorVariant ==
    \A t \in Tasks :
        LET c == calls[t]
            ended == IsSome(c.request) /\ c.pc \in {"returned", "done"}
        IN  /\ (ended /\ Unwrap(c.request).requires_auth /\ IsSome(keys)
                /\ c.trace = <<"encode", "auth">>)
                  => /\ Len(c.returned) = 1
                     /\ ~c.returned[1].ok
                     /\ c.returned[1].error.kind = "SystemTimeError"
                     /\ c.returned[1].error.kind # "SurfError"
            /\ (ended /\ c.trace # <<>>
                /\ c.trace[Len(c.trace)] \in {"transmit", "read"})
                  => /\ Len(c.returned) = 1
                     /\ ~c.returned[1].ok
                     /\ c.returned[1].error.kind = "SurfError"

C22_Witness ==
    \E t \in Tasks :
        LET c == calls[t]
        IN  /\ c.op = "market_buy"
            /\ c.pc = "returned"
            /\ IsSome(keys)
            /\ c.trace = <<"encode", "auth">>
            /\ Len(c.returned) = 1
            /\ ~c.returned[1].ok
            /\ c.returned[1].error.kind = "SystemTimeError"

\* C23: with two calls of send in flight on one client, in any interleaving,
\* each call returns what it returns running alone: the result is a function
\* of its own request, the client's keys, its own reading of the clock and
\* its own response; the request it sends is signed over its own timestamp;
\* and the client's keys and endpoint table are those given at construction
\* or by the latest set_keys.
C23_ConcurrentCallsIndependent ==
    /\ keys = keys_arg
    /\ url_cache = UrlCacheNew
    /\ \A t \in Tasks :
          LET c == calls[t]
              r == Unwrap(c.request)
              status == Unwrap(c.response).status
              body == Unwrap(c.response).body
              isEnvelope ==
                  /\ body.kind = "envelope"
                  /\ \/ body.data = None
                     \/ /\ c.D # "EmptyResponse"
                        /\ Unwrap(body.data).type = c.D
              alone ==
                  IF r.requires_auth /\ keys = None
                  THEN Err([kind |-> "AuthenticationRequired"])
                  ELSE IF r.requires_auth /\ c.timestamp = None
                  THEN Err([kind |-> "SystemTimeError"])
                  ELSE IF c.response = None \/ c.response_string = None
                  THEN Err([kind |-> "SurfError"])
                  ELSE IF status # 200
                  THEN Err([kind |-> "BadStatusCode", status_code |-> status,
                            response_string |-> body,
                            code |-> IF isEnvelope THEN <<body.code>> ELSE <<>>,
                            message |-> IF isEnvelope THEN body.message ELSE <<>>])
                  ELSE IF c.bare_data
                  THEN IF body.kind = "bare" /\ body.payload.type = c.D
                       THEN Ok(body.payload)
                       ELSE Err([kind |-> "SerdeJsonError"])
                  ELSE IF ~isEnvelope THEN Err([kind |-> "SerdeJsonError"])
                  ELSE IF ~body.success
                  THEN Err([kind |-> "ResponseError",
                            source |-> [kind |-> "Unsuccessful", code |-> body.code,
                                        message |-> body.message]])
                  ELSE IF body.data = None
                  THEN Err([kind |-> "ResponseError",
                            source |-> [kind |-> "NullData"]])
                  ELSE Ok(Unwrap(body.data))
          IN  IsSome(c.request)
                 => /\ c.pc \in {"returned", "done"} => c.returned = <<alone>>
                    /\ (r.requires_auth /\ c.sent >= 1)
                          => LET h == Unwrap(c.surf_request).headers
                             IN  /\ h[X_STAMP] = Unwrap(c.timestamp)
                                 /\ h[X_SIGNATURE] =
                                       [base64 |->
                                          [hmac_sha256_key |->
                                               Unwrap(keys).private_key.base64,
                                           msg |-> Unwrap(keys).public_key
                                                     \o Unwrap(c.timestamp)]]

C23_Witness ==
    /\ calls[1].pc = "returned"
    /\ calls[2].pc = "returned"
    /\ calls[1].op = "cancel_order"
    /\ calls[2].op = "cancel_order"
    /\ calls[1].sent = 1
    /\ calls[2].sent = 1
    /\ calls[1].timestamp = Some("0")
    /\ calls[2].timestamp = Some("1")
    /\ IsSome(calls[1].response_string)
    /\ IsSome(calls[2].response_string)
    /\ Unwrap(calls[1].response).status = 503
    /\ Unwrap(calls[2].response).status = 200
    /\ ~calls[1].returned[1].ok
    /\ calls[1].returned[1].error.kind = "BadStatusCode"
    /\ ~calls[2].returned[1].ok
    /\ calls[2].returned[1].error.kind = "ResponseError"

\* C24: limit_buy and limit_sell send their price under "price" and their
\* quantity under "quantity" with orderMethod "limit" and no stopPrice;
\* market_buy and market_sell send their quantity under "quantity" with
\* orderMethod "market"; the buy methods send orderType "buy", the sell
\* methods "sell"; all of them send the pair under "pairSymbol" by POST.
C24_OrderArguments ==
    \A t \in Tasks :
        LET c == calls[t]
        IN  (c.op \in {"market_buy", "market_sell", "limit_buy", "limit_sell"}
             /\ IsSome(c.request))
               => LET r == Unwrap(c.request)
                      P == r.parameters
                      isLimit == c.op \in {"limit_buy", "limit_sell"}
                      isBuy == c.op \in {"market_buy", "limit_buy"}
                  IN  /\ r.method = "Post"
                      /\ {"quantity", "orderMethod", "orderType", "pairSymbol"}
                            \subseteq DOMAIN P
                      /\ P["quantity"] = [String |-> DecimalToString(c.args.quantity)]
                      /\ P["pairSymbol"] = [String |-> c.args.pair_symbol]
                      /\ P["orderType"] = [String |-> IF isBuy THEN "buy" ELSE "sell"]
                      /\ P["orderMethod"] =
                            [String |-> IF isLimit THEN "limit" ELSE "market"]
                      /\ "stopPrice" \notin DOMAIN P
                      /\ IF isLimit
                         THEN /\ "price" \in DOMAIN P
                              /\ P["price"] = [String |-> DecimalToString(c.args.price)]
                         ELSE "price" \notin DOMAIN P

C24_Witness ==
    \E t \in Tasks :
        LET c == calls[t]
        IN  /\ c.op = "limit_buy"
            /\ c.sent = 1
            /\ IsSome(c.request)
            /\ c.args.price = [m |-> 679, s |-> 3]
            /\ c.args.quantity = [m |-> 15, s |-> 0]
            /\ Unwrap(c.request).parameters["price"] = [String |-> "0.679"]
            /\ Unwrap(c.request).parameters["quantity"] = [String |-> "15"]
            /\ Unwrap(c.request).parameters["orderType"] = [String |-> "buy"]

\* C25: the client's id is the one given to the latest Client::new or set_id;
\* an order submission has the parameter newOrderClientId exactly when that
\* id is present, with that id as its value, and has none after set_id(None).
C25_ClientId ==
    /\ id = id_arg
    /\ \A t \in Tasks :
          LET c == calls[t]
          IN  (c.op \in {"market_buy", "market_sell", "limit_buy", "limit_sell",
                         "stop_limit_buy", "stop_limit_sell"}
               /\ IsSome(c.request))
                 => LET P == Unwrap(c.request).parameters
                    IN  /\ ("newOrderClientId" \in DOMAIN P) <=> IsSome(id_arg)
                        /\ IsSome(id_arg)
                              => P["newOrderClientId"] = [String |-> Unwrap(id_arg)]
                        /\ IsSome(c.surf_request)
                              => LET members ==
                                       Unwrap(Unwrap(c.surf_request).body).json_object
                                 IN  (\E i \in 1..Len(members) :
                                         members[i][1] = "newOrderClientId")
                                        <=> IsSome(id_arg)

C25_Witness ==
    \E t \in Tasks :
        LET c == calls[t]
        IN  /\ c.op = "market_sell"
            /\ c.sent = 1
            /\ id_arg = Some("test")
            /\ IsSome(c.request)
            /\ "newOrderClientId" \in DOMAIN Unwrap(c.request).parameters
            /\ Unwrap(c.request).parameters["newOrderClientId"] = [String |-> "test"]

\* C26: trade_transactions called with an order id sends the parameter orderId
\* and no other, whatever type, symbols and date range it was given; called
\* without an order id it sends no orderId.
C26_OrderIdExcludesFilters ==
    \A t \in Tasks :
        LET c == calls[t]
        IN  (c.op = "trade_transactions" /\ IsSome(c.request))
               => LET P == Unwrap(c.request).parameters
                  IN  /\ IF IsSome(c.args.order_id)
                         THEN /\ DOMAIN P = {"orderId"}
                              /\ P["orderId"] = [Number |-> Unwrap(c.args.order_id)]
                         ELSE "orderId" \notin DOMAIN P
                      /\ IsSome(c.surf_request)
                            => LET query == Unwrap(c.surf_request).url.query
                               IN  IF IsSome(c.args.order_id)
                                   THEN query = <<<<"orderId",
                                             NumToString(Unwrap(c.args.order_id))>>>>
                                   ELSE \A i \in 1..Len(query) :
                                           query[i][1] # "orderId"

C26_Witness ==
    \E t \in Tasks :
        LET c == calls[t]
        IN  /\ c.op = "trade_transactions"
            /\ c.sent = 1
            /\ IsSome(c.args.order_id)
            /\ c.args.symbols = <<"btc", "try">>
            /\ IsSome(c.args.type)
            /\ IsSome(c.args.date_range)
            /\ IsSome(c.surf_request)
            /\ Unwrap(c.surf_request).url.query = <<<<"orderId", "72183942">>>>

\* C27: once the body of a response has been read, the debug trace of it is
\* emitted before the status is classified and before anything is decoded,
\* for a 200 response and for any other status alike.
C27_TraceBeforeClassify ==
    \A t \in Tasks :
        LET c == calls[t]
            tr == c.trace
        IN  /\ \A i \in 1..Len(tr) :
                  tr[i] \in {"classify", "decode", "extract"}
                     => \E j \in 1..(i - 1) : tr[j] = "log"
            /\ (IsSome(c.response_string) /\ c.pc # "log")
                  => \E j \in 1..Len(tr) : tr[j] = "log"
            /\ \A j \in 1..Len(tr) :
                  tr[j] = "log" => (j > 1 /\ tr[j - 1] = "read")

C27_Witness ==
    \E t \in Tasks :
        LET c == calls[t]
            tr == c.trace
        IN  /\ c.pc = "done"
            /\ IsSome(c.response)
            /\ Unwrap(c.response).status # StatusOk
            /\ IsSome(c.response_string)
            /\ Len(tr) >= 3
            /\ tr[Len(tr)] = "classify"
            /\ tr[Len(tr) - 1] = "log"
            /\ tr[Len(tr) - 2] = "read"

\* C28: the endpoint table is the one built at construction throughout the
\* client's life; every request targets one of its URLs, and the query pairs
\* send appends go to the request's own copy of that URL.
C28_EndpointTableFixed ==
    /\ url_cache = UrlCacheNew
    /\ \A t \in Tasks :
          LET c == calls[t]
          IN  /\ IsSome(c.request)
                    => \E k \in DOMAIN UrlCacheNew :
                          Unwrap(c.request).endpoint = UrlCacheNew[k]
              /\ IsSome(c.surf_request)
                    => /\ IsSome(c.request)
                       /\ Unwrap(c.surf_request).url.endpoint
                             = Unwrap(c.request).endpoint

C28_Witness ==
    /\ url_cache = UrlCacheNew
    /\ \E t \in Tasks :
          LET c == calls[t]
          IN  /\ c.pc = "done"
              /\ c.sent = 1
              /\ IsSome(c.surf_request)
              /\ Unwrap(c.surf_request).url.endpoint = url_cache.order_book
              /\ Unwrap(c.surf_request).url.query # <<>>

\* C29: a Parameters map holds one value per name.  A push of a present value
\* under a name already in the map replaces the earlier value and leaves the
\* other entries alone, and the map never has more entries than distinct
\* names were pushed with a present value.
C29_OneValuePerName ==
    \A t \in Tasks :
        LET c == calls[t]
        IN  IsSome(c.pushed)
               => LET h == Unwrap(c.pushed)
                      P == c.parameters
                      stored ==
                          CASE h.op = "push_string"  -> [String |-> Unwrap(h.value)]
                            [] h.op = "push_decimal" ->
                                  [String |-> DecimalToString(Unwrap(h.value))]
                            [] h.op = "push_object"  ->
                                  [String |-> IntoString(Unwrap(h.value))]
                            [] h.op = "push_number"  -> [Number |-> Unwrap(h.value)]
                  IN  /\ DOMAIN P \subseteq h.present
                      /\ Cardinality(DOMAIN P) <= Cardinality(h.present)
                      /\ \A i, j \in 1..Len(Keys(P)) :
                            Keys(P)[i] = Keys(P)[j] => i = j
                      /\ Len(Keys(P)) = Cardinality(DOMAIN P)
                      /\ IsSome(h.value)
                            => /\ P[h.name] = stored
                               /\ DOMAIN P = DOMAIN h.before \cup {h.name}
                               /\ \A k \in DOMAIN h.before :
                                     k # h.name => P[k] = h.before[k]

C29_Witness ==
    \E t \in Tasks :
        LET c == calls[t]
        IN  /\ IsSome(c.pushed)
            /\ IsSome(Unwrap(c.pushed).value)
            /\ Unwrap(c.pushed).name \in DOMAIN Unwrap(c.pushed).before
            /\ Unwrap(c.pushed).name \in DOMAIN c.parameters
            /\ c.parameters[Unwrap(c.pushed).name]
                  # Unwrap(c.pushed).before[Unwrap(c.pushed).name]
            /\ Cardinality(DOMAIN c.parameters) = 2

\* C30: all_orders checks its limit before send looks for the keys.  With a
\* limit above 1000 the call returns ParameterError whether or not the client
\* has keys; with a valid limit and no keys it returns AuthenticationRequired;
\* in both cases nothing is transmitted.
C30_ValidationBeforeAuth ==
    \A t \in Tasks :
        LET c == calls[t]
            tooLarge == IsSome(c.args.limit) /\ Unwrap(c.args.limit) > 1000
        IN  c.op = "all_orders"
               => /\ tooLarge
                        => /\ c.pc = "done"
                           /\ c.outcome = Some(Err(ParameterError(
                                 ParameterNew("limit",
                                              NumToString(Unwrap(c.args.limit))))))
                           /\ c.request = None
                           /\ c.sent = 0
                  /\ (~tooLarge /\ keys = None)
                        => /\ c.sent = 0
                           /\ c.pc = "done"
                                 => c.outcome = Some(Err(AuthenticationRequired))

C30_Witness ==
    /\ keys = None
    /\ \E t \in Tasks :
          LET c == calls[t]
          IN  /\ c.op = "all_orders"
              /\ c.pc = "done"
              /\ c.args.limit = Some(1001)
              /\ c.sent = 0
              /\ IsSome(c.outcome)
              /\ ~Unwrap(c.outcome).ok
              /\ Unwrap(c.outcome).error.kind = "ParameterError"

====
